---- MODULE Spec2Model ----
(***************************************************************************)
(* Model of the tablerepair backend: the task/batch state machine driven   *)
(* by the BullMQ repair worker (repairWorker.ts, dbService.ts, queue.ts,   *)
(* batch routes), the repair protocol (repairService.ts), the path of one  *)
(* upload from the audit to the output file (auditService.ts, batch        *)
(* routes, generateOutputFile), and the grid builder and the issue         *)
(* detector of auditService.ts.                                            *)
(***************************************************************************)
EXTENDS Integers, Sequences, FiniteSets, TLC

(***************************************************************************)
(* Bounds of the model                                                     *)
(***************************************************************************)
MaxTasks == 2
MaxQueueCeiling == 3
MaxAttemptsCol == 2
MaxDbFailures == 1
NumRuns == 2
MaxKeys == 2

(***************************************************************************)
(* Program constants                                                       *)
(***************************************************************************)
DefaultMaxAttempts == 3
InitialAttempt == 0
BackoffBaseMs == 5000
QueueBackoffDelayMs == 5000
WORKER_CONCURRENCY == 8

Tasks == 1..MaxTasks

NoTime == -1

TerminalTaskStatus == {"COMPLETED", "FAILED", "SKIPPED", "CANCELLED"}

DbError == "db error"

\* what repairTableWithGemini hands back to the worker: success, or a failure
\* carrying an error message (one non-empty message stands for all of them)
ProtocolErrors == {"Validation failed after 3 attempts."}

VARIABLES
  \* ---- environment / configuration
  queueCeiling,      \* env.MAX_RETRY_ATTEMPTS, the queue's attempts option
  colMaxAttempts,    \* value the Task.maxAttempts column gets at creation (0: unset)
  dryRun,            \* upload option dryRun
  now,               \* Date.now()
  \* ---- Batch row
  batchStatus, batchPhase, successCount, failedCount, totalTokensUsed, totalCostBRL,
  outputFile,
  \* ---- Task rows
  numTasks, taskStatus, taskAttempts, taskLastError, taskNextRetryAt,
  \* ---- BullMQ jobs (jobId = taskId)
  jobState, jobAttempt, jobAttemptsMade, jobDelayUntil,
  \* ---- control state: upload handler, worker processor, 'completed' handler
  upPc, wpc, wResult, wErr, chk,
  \* ---- control state of the cancel route: position, jobs still to remove, count
  xpc, xJobs, cancelled,
  \* ---- history of the run (not program state)
  pickups, protoOk, contrib, dbFails, genCount,
  \* ---- repairService.ts: process-wide state
  nKeys,             \* OPENROUTER_KEYS.length
  aiConfigured,      \* ai !== null (GEMINI_API_KEY set)
  keyPointer,
  \* ---- repairService.ts: one repairTableWithGemini call per run
  pStrategy, ppc, attempts, providerUsed, keyRetries, curKey, attemptLogs, pResult,
  historyUsage,
  \* ---- history of a run (not program state)
  tries, primaryCalls, poolCalled, keyFails, lastKeyOut,
  poolUsed,          \* tokens the pool provider reported in this run
  \* ---- history of the process: the last nKeys indices getNextKey returned
  selHist,
  \* ---- one upload followed from the audit to the output file
  upload,            \* the parsed JSON of the uploaded file
  severityFilter,    \* upload option severityFilter
  dpc,               \* position: upload route, then workers, then completion check
  filteredIssues,    \* the audit's issues that passed the severity filter
  cursor,            \* index of the next element of the loop in progress
  taskMap,           \* the route's Map key -> JobPayload, in insertion order
  taskRows,          \* the batch's Task rows, in creation order (id = position)
  jobs,              \* what addBulk was given: jobId and priority per job
  docBatch,          \* the Batch row: status, phase, outputFilePath
  questions,         \* generateOutputFile's working copy of the questions
  completedTasks,    \* getCompletedTasksGroupedByQuestion, flattened
  outputData,        \* content of the output file (NoOutput: none written)
  genFailed,         \* generateOutputFile's catch block has run
  \* ---- one call of buildGrid
  gridRows,          \* bodyRowEls: the cells of each body row
  grid,              \* the TableGrid returned
  gridPc,
  \* ---- analyzeTable on one table, called twice
  headerRow,         \* the cells of the header row
  firstIssues,       \* the issue list of the first call
  secondIssues,      \* the issue list of the second call
  rng                \* state of the generator behind Math.random()

workerVars == <<queueCeiling, colMaxAttempts, dryRun, now,
                batchStatus, batchPhase, successCount, failedCount, totalTokensUsed,
                totalCostBRL, outputFile,
                numTasks, taskStatus, taskAttempts, taskLastError, taskNextRetryAt,
                jobState, jobAttempt, jobAttemptsMade, jobDelayUntil,
                upPc, wpc, wResult, wErr, chk,
                xpc, xJobs, cancelled,
                pickups, protoOk, contrib, dbFails, genCount>>

protoVars == <<nKeys, aiConfigured, keyPointer, pStrategy, ppc, attempts, providerUsed,
               keyRetries, curKey, attemptLogs, pResult, tries, primaryCalls, poolCalled,
               keyFails, lastKeyOut, selHist, historyUsage, poolUsed>>

docVars == <<upload, severityFilter, dpc, filteredIssues, cursor, taskMap, taskRows, jobs,
             docBatch, questions, completedTasks, outputData, genFailed>>

gridVars == <<gridRows, grid, gridPc, headerRow, firstIssues, secondIssues, rng>>

sideVars == <<docVars, gridVars>>

vars == <<workerVars, protoVars, sideVars>>

RECURSIVE Pow2(_)
Pow2(n) == IF n <= 0 THEN 1 ELSE 2 * Pow2(n - 1)

Existing == 1..numTasks

WorkerInit ==
  /\ queueCeiling \in 1..MaxQueueCeiling
  /\ colMaxAttempts \in 0..MaxAttemptsCol
  /\ dryRun = FALSE
  /\ now = 0
  /\ batchStatus = "none" /\ batchPhase = "none"
  /\ successCount = 0 /\ failedCount = 0 /\ outputFile = FALSE
  /\ totalTokensUsed = 0 /\ totalCostBRL = 0
  /\ numTasks = 0
  /\ taskStatus = [t \in Tasks |-> "none"]
  /\ taskAttempts = [t \in Tasks |-> 0]
  /\ taskLastError = [t \in Tasks |-> ""]
  /\ taskNextRetryAt = [t \in Tasks |-> NoTime]
  /\ jobState = [t \in Tasks |-> "none"]
  /\ jobAttempt = [t \in Tasks |-> 0]
  /\ jobAttemptsMade = [t \in Tasks |-> 0]
  /\ jobDelayUntil = [t \in Tasks |-> NoTime]
  /\ upPc = "start"
  /\ wpc = [t \in Tasks |-> "idle"]
  /\ wResult = [t \in Tasks |-> "none"]
  /\ wErr = [t \in Tasks |-> ""]
  /\ chk = [t \in Tasks |-> "none"]
  /\ xpc = "idle" /\ xJobs = {} /\ cancelled = 0
  /\ pickups = [t \in Tasks |-> 0]
  /\ protoOk = [t \in Tasks |-> FALSE]
  /\ contrib = [t \in Tasks |-> 0]
  /\ dbFails = 0
  /\ genCount = 0

(***************************************************************************)
(* dbService.ts                                                            *)
(***************************************************************************)

\* a persistence call may throw; the model allows MaxDbFailures of them per run
DbCanFail == dbFails < MaxDbFailures

\* Task.maxAttempts as the worker reads it: task?.maxAttempts || 3
EffectiveMaxAttempts == IF colMaxAttempts = 0 THEN DefaultMaxAttempts ELSE colMaxAttempts

CountStatus(s) == Cardinality({t \in Existing : taskStatus[t] = s})

\* getBatchProgress: counts by status over the batch's task rows
getBatchProgress ==
  [ totalTasks     |-> numTasks,
    completedTasks |-> CountStatus("COMPLETED") + CountStatus("SKIPPED"),
    failedTasks    |-> CountStatus("FAILED") ]

\* checkBatchCompletion's decision on a progress snapshot
isComplete(progress) ==
  (progress.completedTasks + progress.failedTasks) >= progress.totalTasks

\* what a successful result reports to the batch counters: usage.totalTokens and
\* costBRL (one value stands for all results)
ResultUsage == [totalTokens |-> 5, costBRL |-> 3]

\* an absolute write of the column, as updateBatchCounters does
Increment_Overwrite(column, n) == IF n # 0 THEN n ELSE column

\* incrementBatchCounters: n ? { increment: n } : undefined, one relative
\* UPDATE of the column
Increment(column, n) == IF n # 0 THEN column + n ELSE column

\* the worker's retry decision: (attempt + 1) < maxAttempts
WillRetry(attempt, maxAttempts) == (attempt + 1) < maxAttempts

\* new Date(Date.now() + Math.pow(2, attempt + 1) * 5000)
NextRetryAt(attempt) == now + Pow2(attempt + 1) * BackoffBaseMs

\* BullMQ's exponential backoff for the retry after attemptsMade failures
QueueBackoff(attemptsMade) == Pow2(attemptsMade - 1) * QueueBackoffDelayMs

(***************************************************************************)
(* POST /upload                                                            *)
(***************************************************************************)
confVars  == <<queueCeiling, colMaxAttempts>>
countVars == <<successCount, failedCount, totalTokensUsed, totalCostBRL>>
fileVars  == <<outputFile, genCount>>
taskData  == <<taskAttempts, taskLastError, taskNextRetryAt>>
queueData == <<jobAttemptsMade, jobDelayUntil>>
procVars  == <<wpc, wResult, wErr>>
histVars  == <<pickups, protoOk, contrib, dbFails>>
cancelVars == <<xpc, xJobs, cancelled>>

UploadFrame ==
  UNCHANGED <<confVars, cancelVars, now, countVars, fileVars, taskData, queueData, procVars, chk,
              histVars, protoVars, sideVars>>

\* db.createBatch: status PENDING, currentPhase UPLOAD
U_Create ==
  /\ upPc = "start"
  /\ batchStatus' = "PENDING" /\ batchPhase' = "UPLOAD"
  /\ upPc' = "created"
  /\ UNCHANGED <<dryRun, numTasks, taskStatus, jobState, jobAttempt>>
  /\ UploadFrame

\* an intake that announces the repair phase before the audit
U_Audit_SkipsAuditPhase ==
  /\ upPc = "created"
  /\ dryRun' \in BOOLEAN
  /\ batchStatus' = "PROCESSING" /\ batchPhase' = "REPAIR"
  /\ upPc' = "audited"
  /\ UNCHANGED <<numTasks, taskStatus, jobState, jobAttempt>>
  /\ UploadFrame

\* options parsed (dryRun); db.updateBatchStatus(PROCESSING, AUDIT); auditData;
\* db.updateBatchCounters
U_Audit ==
  /\ upPc = "created"
  /\ dryRun' \in BOOLEAN
  /\ batchStatus' = "PROCESSING" /\ batchPhase' = "AUDIT"
  /\ upPc' = "audited"
  /\ UNCHANGED <<numTasks, taskStatus, jobState, jobAttempt>>
  /\ UploadFrame

\* if (options.dryRun): COMPLETED / DONE and return
U_DryRun ==
  /\ upPc = "audited" /\ dryRun
  /\ batchStatus' = "COMPLETED" /\ batchPhase' = "DONE"
  /\ upPc' = "done"
  /\ UNCHANGED <<dryRun, numTasks, taskStatus, jobState, jobAttempt>>
  /\ UploadFrame

\* one db.createTask per audited table (n of them), status PENDING
U_Tasks ==
  /\ upPc = "audited" /\ ~dryRun
  /\ \E n \in 0..MaxTasks :
       /\ numTasks' = n
       /\ taskStatus' = [t \in Tasks |-> IF t <= n THEN "PENDING" ELSE "none"]
  /\ upPc' = "tasks"
  /\ UNCHANGED <<dryRun, batchStatus, batchPhase, jobState, jobAttempt>>
  /\ UploadFrame

\* addBulkRepairJobs: one job per task, jobId = taskId, payload attempt: 0
U_Enqueue ==
  /\ upPc = "tasks"
  /\ jobState' = [t \in Tasks |-> IF t <= numTasks THEN "waiting" ELSE "none"]
  /\ jobAttempt' = [t \in Tasks |-> InitialAttempt]
  /\ upPc' = "queued"
  /\ UNCHANGED <<dryRun, batchStatus, batchPhase, numTasks, taskStatus>>
  /\ UploadFrame

\* db.updateBatchStatus(PROCESSING, REPAIR)
U_Repair ==
  /\ upPc = "queued"
  /\ batchStatus' = "PROCESSING" /\ batchPhase' = "REPAIR"
  /\ upPc' = "done"
  /\ UNCHANGED <<dryRun, numTasks, taskStatus, jobState, jobAttempt>>
  /\ UploadFrame

(***************************************************************************)
(* The queue and the clock                                                 *)
(***************************************************************************)
intakeVars == <<dryRun, numTasks, upPc, jobAttempt>>
batchVars  == <<batchStatus, batchPhase, fileVars>>

ActiveJobs == {t \in Tasks : jobState[t] = "active"}

\* a worker slot takes a waiting job and calls the processor
Pickup(t) ==
  /\ jobState[t] = "waiting"
  /\ Cardinality(ActiveJobs) < WORKER_CONCURRENCY
  /\ jobState' = [jobState EXCEPT ![t] = "active"]
  /\ wpc' = [wpc EXCEPT ![t] = "start"]
  /\ pickups' = [pickups EXCEPT ![t] = @ + 1]
  /\ UNCHANGED <<confVars, cancelVars, intakeVars, batchVars, countVars, now, taskStatus, taskData,
                 queueData, wResult, wErr, chk, protoOk, contrib, dbFails, protoVars, sideVars>>

\* a delayed job becomes waiting once its backoff has elapsed
Promote(t) ==
  /\ jobState[t] = "delayed"
  /\ now >= jobDelayUntil[t]
  /\ jobState' = [jobState EXCEPT ![t] = "waiting"]
  /\ UNCHANGED <<confVars, cancelVars, intakeVars, batchVars, countVars, now, taskStatus, taskData,
                 queueData, procVars, chk, histVars, protoVars, sideVars>>

\* time passes while some job waits for its backoff to elapse
Tick ==
  /\ \E t \in Tasks : jobState[t] = "delayed" /\ jobDelayUntil[t] > now
  /\ now' = now + QueueBackoffDelayMs
  /\ UNCHANGED <<confVars, cancelVars, intakeVars, batchVars, countVars, taskStatus, taskData,
                 jobState, queueData, procVars, chk, histVars, protoVars, sideVars>>

(***************************************************************************)
(* repairWorker.ts: the processor                                          *)
(***************************************************************************)
WFrame == UNCHANGED <<confVars, cancelVars, intakeVars, batchVars, now, pickups, protoVars, sideVars>>

\* an awaited persistence call throws: control goes to the catch block
Throws(t) ==
  /\ DbCanFail
  /\ dbFails' = dbFails + 1
  /\ wErr' = [wErr EXCEPT ![t] = DbError]
  /\ wpc' = [wpc EXCEPT ![t] = "catch"]

\* the processor returns: the job is completed and 'completed' is emitted
Returns(t) ==
  /\ jobState' = [jobState EXCEPT ![t] = "completed"]
  /\ wpc' = [wpc EXCEPT ![t] = "idle"]
  /\ wResult' = [wResult EXCEPT ![t] = "none"]
  /\ chk' = [chk EXCEPT ![t] = "pending"]

\* db.updateTaskStatus(taskId, 'PROCESSING', {attempts: attempt + 1})
W_SetProcessing(t) ==
  /\ wpc[t] = "start"
  /\ \/ /\ taskStatus' = [taskStatus EXCEPT ![t] = "PROCESSING"]
        /\ taskAttempts' = [taskAttempts EXCEPT ![t] = jobAttempt[t] + 1]
        /\ wpc' = [wpc EXCEPT ![t] = "run"]
        /\ UNCHANGED <<wErr, dbFails>>
     \/ /\ Throws(t)
        /\ UNCHANGED <<taskStatus, taskAttempts>>
  /\ WFrame
  /\ UNCHANGED <<countVars, taskLastError, taskNextRetryAt, jobState, queueData, wResult,
                 chk, protoOk, contrib>>

\* db.getBatch, then repairTableWithGemini: success or a failure result
W_Repair(t) ==
  /\ wpc[t] = "run"
  /\ \/ /\ wResult' = [wResult EXCEPT ![t] = "success"]
        /\ protoOk' = [protoOk EXCEPT ![t] = TRUE]
        /\ wpc' = [wpc EXCEPT ![t] = "okStatus"]
        /\ UNCHANGED <<wErr, dbFails>>
     \/ /\ \E e \in ProtocolErrors : wResult' = [wResult EXCEPT ![t] = e]
        /\ protoOk' = [protoOk EXCEPT ![t] = FALSE]
        /\ wpc' = [wpc EXCEPT ![t] = "fail"]
        /\ UNCHANGED <<wErr, dbFails>>
     \/ /\ Throws(t)
        /\ UNCHANGED <<wResult, protoOk>>
  /\ WFrame
  /\ UNCHANGED <<countVars, taskStatus, taskData, jobState, queueData, chk, contrib>>

\* db.updateTaskStatus(taskId, 'COMPLETED', {...})
W_WriteCompleted(t) ==
  /\ wpc[t] = "okStatus"
  /\ \/ /\ taskStatus' = [taskStatus EXCEPT ![t] = "COMPLETED"]
        /\ wpc' = [wpc EXCEPT ![t] = "okCount"]
        /\ UNCHANGED <<wErr, dbFails>>
     \/ /\ Throws(t)
        /\ UNCHANGED taskStatus
  /\ WFrame
  /\ UNCHANGED <<countVars, taskData, jobState, queueData, wResult, chk, protoOk, contrib>>

\* db.incrementBatchCounters(batchId, {successCount: 1, ...})
W_IncSuccess(t) ==
  /\ wpc[t] = "okCount"
  /\ \/ /\ successCount' = Increment(successCount, 1)
        /\ totalTokensUsed' = Increment(totalTokensUsed, ResultUsage.totalTokens)
        /\ totalCostBRL' = Increment(totalCostBRL, ResultUsage.costBRL)
        /\ contrib' = [contrib EXCEPT ![t] = @ + 1]
        /\ wpc' = [wpc EXCEPT ![t] = "okLog"]
        /\ UNCHANGED <<wErr, dbFails>>
     \/ /\ Throws(t)
        /\ UNCHANGED <<successCount, totalTokensUsed, totalCostBRL, contrib>>
  /\ WFrame
  /\ UNCHANGED <<failedCount, taskStatus, taskData, jobState, queueData, wResult, chk,
                 protoOk>>

\* db.createLog(INFO ...); return {success: true}
W_LogSuccess(t) ==
  /\ wpc[t] = "okLog"
  /\ \/ /\ Returns(t)
        /\ UNCHANGED <<wErr, dbFails>>
     \/ /\ Throws(t)
        /\ UNCHANGED <<jobState, wResult, chk>>
  /\ WFrame
  /\ UNCHANGED <<countVars, taskStatus, taskData, queueData, protoOk, contrib>>

\* db.getTask; then RETRY (and throw) while (attempt + 1) < maxAttempts, else FAILED
W_FailWrite(t) ==
  /\ wpc[t] = "fail"
  /\ \/ /\ WillRetry(jobAttempt[t], EffectiveMaxAttempts)
        /\ taskStatus' = [taskStatus EXCEPT ![t] = "RETRY"]
        /\ taskLastError' = [taskLastError EXCEPT ![t] = wResult[t]]
        /\ taskNextRetryAt' = [taskNextRetryAt EXCEPT ![t] = NextRetryAt(jobAttempt[t])]
        /\ wErr' = [wErr EXCEPT ![t] = wResult[t]]
        /\ wpc' = [wpc EXCEPT ![t] = "catch"]
        /\ UNCHANGED dbFails
     \/ /\ ~WillRetry(jobAttempt[t], EffectiveMaxAttempts)
        /\ taskStatus' = [taskStatus EXCEPT ![t] = "FAILED"]
        /\ taskLastError' = [taskLastError EXCEPT ![t] = wResult[t]]
        /\ wpc' = [wpc EXCEPT ![t] = "failCount"]
        /\ UNCHANGED <<taskNextRetryAt, wErr, dbFails>>
     \/ /\ Throws(t)
        /\ UNCHANGED <<taskStatus, taskLastError, taskNextRetryAt>>
  /\ WFrame
  /\ UNCHANGED <<countVars, taskAttempts, jobState, queueData, wResult, chk, protoOk,
                 contrib>>

\* db.incrementBatchCounters(batchId, {failedCount: 1})
W_IncFailed(t) ==
  /\ wpc[t] = "failCount"
  /\ \/ /\ failedCount' = Increment(failedCount, 1)
        /\ contrib' = [contrib EXCEPT ![t] = @ + 1]
        /\ wpc' = [wpc EXCEPT ![t] = "failLog"]
        /\ UNCHANGED <<wErr, dbFails>>
     \/ /\ Throws(t)
        /\ UNCHANGED <<failedCount, contrib>>
  /\ WFrame
  /\ UNCHANGED <<successCount, totalTokensUsed, totalCostBRL, taskStatus, taskData, jobState,
                 queueData, wResult, chk,
                 protoOk>>

\* db.createLog(ERROR ...); return {success: false}
W_LogFailed(t) ==
  /\ wpc[t] = "failLog"
  /\ \/ /\ Returns(t)
        /\ UNCHANGED <<wErr, dbFails>>
     \/ /\ Throws(t)
        /\ UNCHANGED <<jobState, wResult, chk>>
  /\ WFrame
  /\ UNCHANGED <<countVars, taskStatus, taskData, queueData, protoOk, contrib>>

\* catch: db.updateTaskStatus(taskId, 'RETRY', {lastError}); throw error.
\* The queue then counts the failed attempt and delays the job with its own
\* backoff, or fails it for good at its attempts ceiling.
W_Catch(t) ==
  /\ wpc[t] = "catch"
  /\ \/ /\ taskStatus' = [taskStatus EXCEPT ![t] = "RETRY"]
        /\ taskLastError' = [taskLastError EXCEPT ![t] = wErr[t]]
        /\ UNCHANGED dbFails
     \/ /\ DbCanFail
        /\ dbFails' = dbFails + 1
        /\ UNCHANGED <<taskStatus, taskLastError>>
  /\ jobAttemptsMade' = [jobAttemptsMade EXCEPT ![t] = @ + 1]
  /\ IF jobAttemptsMade[t] + 1 < queueCeiling
       THEN /\ jobState' = [jobState EXCEPT ![t] = "delayed"]
            /\ jobDelayUntil' = [jobDelayUntil EXCEPT ![t] =
                                   now + QueueBackoff(jobAttemptsMade[t] + 1)]
       ELSE /\ jobState' = [jobState EXCEPT ![t] = "failed"]
            /\ UNCHANGED jobDelayUntil
  /\ wpc' = [wpc EXCEPT ![t] = "idle"]
  /\ wResult' = [wResult EXCEPT ![t] = "none"]
  /\ wErr' = [wErr EXCEPT ![t] = ""]
  /\ WFrame
  /\ UNCHANGED <<countVars, taskAttempts, taskNextRetryAt, chk, protoOk, contrib>>

(***************************************************************************)
(* repairWorker.ts: worker.on('completed') and checkBatchCompletion        *)
(***************************************************************************)
CFrame ==
  UNCHANGED <<confVars, cancelVars, intakeVars, now, countVars, taskStatus, taskData, jobState,
              queueData, procVars, histVars, protoVars, sideVars>>

\* progress = await db.getBatchProgress(batchId); isComplete = ...
C_Read(t) ==
  /\ chk[t] = "pending"
  /\ chk' = [chk EXCEPT ![t] = IF isComplete(getBatchProgress) THEN "gen" ELSE "done"]
  /\ UNCHANGED <<batchStatus, batchPhase, outputFile, genCount>>
  /\ CFrame

\* await generateOutputFile(batchId): errors are caught and logged inside
C_Generate(t) ==
  /\ chk[t] = "gen"
  /\ genCount' = genCount + 1
  /\ \/ outputFile' = TRUE
     \/ UNCHANGED outputFile
  /\ chk' = [chk EXCEPT ![t] = "write"]
  /\ UNCHANGED <<batchStatus, batchPhase>>
  /\ CFrame

\* await db.updateBatchStatus(batchId, 'COMPLETED', 'DONE')
C_Write(t) ==
  /\ chk[t] = "write"
  /\ batchStatus' = "COMPLETED" /\ batchPhase' = "DONE"
  /\ chk' = [chk EXCEPT ![t] = "done"]
  /\ UNCHANGED <<outputFile, genCount>>
  /\ CFrame

(***************************************************************************)
(* POST /:batchId/cancel and cancelBatchJobs                               *)
(***************************************************************************)
XFrame ==
  UNCHANGED <<confVars, intakeVars, now, countVars, fileVars, taskStatus, taskData,
              queueData, procVars, chk, histVars, protoVars, sideVars>>

\* a job listing that leaves out the jobs delayed for a retry
CancelStates_NoDelayed == {"waiting", "active"}

\* repairQueue.getJobs(['waiting', 'delayed', 'active'])
CancelStates == {"waiting", "delayed", "active"}

\* the request arrives for a batch id the upload response returned: db.getBatch,
\* 400 for a COMPLETED or CANCELLED batch, else cancelBatchJobs lists the jobs
X_Check ==
  /\ xpc = "idle" /\ upPc = "done"
  /\ IF batchStatus \in {"COMPLETED", "CANCELLED"}
       THEN /\ xpc' = "rejected"
            /\ UNCHANGED <<xJobs, cancelled>>
       ELSE /\ xpc' = "removing"
            /\ xJobs' = {t \in Tasks : jobState[t] \in CancelStates}
            /\ cancelled' = 0
  /\ UNCHANGED <<batchStatus, batchPhase, jobState>>
  /\ XFrame

\* await job.remove(); cancelled++ : BullMQ refuses to remove a job a worker
\* holds the lock of and throws; the route has no handler for it
X_Remove(t) ==
  /\ xpc = "removing" /\ t \in xJobs
  /\ IF jobState[t] = "active"
       THEN /\ xpc' = "error"
            /\ xJobs' = {}
            /\ cancelled' = 0
            /\ UNCHANGED jobState
       ELSE /\ jobState' = [jobState EXCEPT ![t] = "removed"]
            /\ cancelled' = cancelled + 1
            /\ xJobs' = xJobs \ {t}
            /\ UNCHANGED xpc
  /\ UNCHANGED <<batchStatus, batchPhase>>
  /\ XFrame

\* await db.updateBatchStatus(batchId, 'CANCELLED') and the response
X_Write ==
  /\ xpc = "removing" /\ xJobs = {}
  /\ batchStatus' = "CANCELLED"
  /\ xpc' = "done"
  /\ cancelled' = 0
  /\ UNCHANGED <<batchPhase, jobState, xJobs>>
  /\ XFrame

WorkerNext ==
  \/ U_Create \/ U_Audit \/ U_DryRun \/ U_Tasks \/ U_Enqueue \/ U_Repair
  \/ Tick
  \/ \E t \in Tasks :
       \/ Pickup(t) \/ Promote(t)
       \/ W_SetProcessing(t) \/ W_Repair(t)
       \/ W_WriteCompleted(t) \/ W_IncSuccess(t) \/ W_LogSuccess(t)
       \/ W_FailWrite(t) \/ W_IncFailed(t) \/ W_LogFailed(t)
       \/ W_Catch(t)
       \/ C_Read(t) \/ C_Generate(t) \/ C_Write(t)
       \/ X_Remove(t)
  \/ X_Check \/ X_Write

(***************************************************************************)
(* repairService.ts: the repair protocol                                   *)
(***************************************************************************)
Runs == 1..NumRuns

MAX_VERIFICATION_ATTEMPTS == 3

\* a key loop that gives up one key early
KeyRetryLimit_TwoKeys == 3 - 1
KeyRetryLimit == 3

ErrValidation == "Validation failed after 3 attempts."
ErrAllKeys    == "All OpenRouter keys failed."
ErrNoKeys     == "No OpenRouter keys configured. Set OPENROUTER_KEYS in .env"

\* Provider answers, as sequences of the pieces of text the cleanup and the
\* validation look at: code fences, table and row tags, anything else.
Responses ==
  { <<"[fence-html]", "<table", "<tr", "</tr>", "</table>", "[fence]">>,
    <<"text", "<table", "<tr", "</tr>", "</table>", "text">>,
    <<"<table", "</table>", "<tr", "</tr>">>,
    <<"<table", "</table>">>,
    <<"text">>,
    <<>> }

\* the two .replace calls that drop the markdown code fences, and .trim()
StripFences(text) == SelectSeq(text, LAMBDA x : x \notin {"[fence-html]", "[fence]"})

Positions(text, tok) == {i \in 1..Len(text) : text[i] = tok}

Min(S) == CHOOSE x \in S : \A y \in S : x <= y
Max(S) == CHOOSE x \in S : \A y \in S : x >= y

\* /<open[\s\S]*<\/close>/i : an opening tag with a closing tag somewhere after it
Spans(text, open, close) ==
  \E i \in Positions(text, open) : \E j \in Positions(text, close) : i < j

\* repairedHtml.match(/<table[\s\S]*<\/table>/i): first <table to last </table>
ExtractTable(text) ==
  IF Spans(text, "<table", "</table>")
    THEN SubSeq(text, Min(Positions(text, "<table")), Max(Positions(text, "</table>")))
    ELSE text

CleanResponse(text) == ExtractTable(StripFences(text))

\* a validation that accepts a table without rows
verifyRepairedTable_NoRowCheck(html) ==
  IF ~Spans(html, "<table", "</table>")
    THEN [valid |-> FALSE, errors |-> <<"Output does not contain a valid <table> tag">>]
  ELSE [valid |-> TRUE, errors |-> <<>>]

verifyRepairedTable(html) ==
  IF ~Spans(html, "<table", "</table>")
    THEN [valid |-> FALSE, errors |-> <<"Output does not contain a valid <table> tag">>]
  ELSE IF ~Spans(html, "<tr", "</tr>")
    THEN [valid |-> FALSE, errors |-> <<"Table has no rows">>]
  ELSE [valid |-> TRUE, errors |-> <<>>]

\* prices in US cents per million tokens, and the exchange rate
PRICE_INPUT_USD_CENTS == 10
PRICE_OUTPUT_USD_CENTS == 40
USD_TO_BRL == 6

NoUsage == [promptTokens |-> 0, completionTokens |-> 0]

\* token usage a provider reports for one call: the primary provider may report
\* none (usageMetadata missing) or some; the pool reports some
PrimaryUsages == {NoUsage, [promptTokens |-> 2, completionTokens |-> 1]}
PoolUsages == {[promptTokens |-> 3, completionTokens |-> 2]}

AddUsage(a, b) ==
  [promptTokens |-> a.promptTokens + b.promptTokens,
   completionTokens |-> a.completionTokens + b.completionTokens]

\* calculateCost, in centavos per million tokens
calculateCost(usage) ==
  (usage.promptTokens * PRICE_INPUT_USD_CENTS
     + usage.completionTokens * PRICE_OUTPUT_USD_CENTS) * USD_TO_BRL

NoResult ==
  [done |-> FALSE, success |-> FALSE, repairedHtml |-> <<>>, error |-> "",
   provider |-> "", hasLog |-> FALSE, logLen |-> 0, usage |-> NoUsage, costBRL |-> 0]

\* the primary branch without its first-attempt test
UsePrimary_AnyAttempt(strategy, ai, att, prov) ==
  strategy = "hybrid" /\ ai /\ prov = "google"

\* strategy === 'hybrid' && ai && attempts === 0 && providerUsed === 'google'
UsePrimary(strategy, ai, att, prov) ==
  strategy = "hybrid" /\ ai /\ att = 0 /\ prov = "google"

\* providerUsed === 'openrouter' || !ai || attempts > 0
UsePool(ai, att, prov) == prov = "openrouter" \/ ~ai \/ att > 0

\* getNextKey: the key at the pointer; the pointer moves on and wraps
getNextKeyIndex == keyPointer
\* a pointer that wraps one position early
getNextKeyPointer_WrapsEarly == IF keyPointer + 1 >= nKeys - 1 THEN 0 ELSE keyPointer + 1
getNextKeyPointer == (keyPointer + 1) % nKeys

\* the last n elements of a sequence
LastN(seq, n) ==
  IF Len(seq) <= n THEN seq ELSE SubSeq(seq, Len(seq) - n + 1, Len(seq))

ProtoFrame == UNCHANGED <<workerVars, sideVars, nKeys, aiConfigured>>

\* the function returns: its locals are gone
LocalsGone(r) ==
  /\ attempts' = [attempts EXCEPT ![r] = 0]
  /\ providerUsed' = [providerUsed EXCEPT ![r] = "google"]
  /\ keyRetries' = [keyRetries EXCEPT ![r] = 0]
  /\ curKey' = [curKey EXCEPT ![r] = 0]
  /\ attemptLogs' = [attemptLogs EXCEPT ![r] = <<>>]
  /\ historyUsage' = [historyUsage EXCEPT ![r] = NoUsage]

\* the outer catch: a failure result with no log
Abort(r, msg) ==
  /\ pResult' = [pResult EXCEPT ![r] =
        [done |-> TRUE, success |-> FALSE, repairedHtml |-> <<>>, error |-> msg,
         provider |-> "", hasLog |-> FALSE, logLen |-> 0, usage |-> NoUsage,
         costBRL |-> 0]]
  /\ ppc' = [ppc EXCEPT ![r] = "done"]
  /\ LocalsGone(r)

\* head of the key loop: getNextKey() and the call to OpenRouter with that key
SelectKey(r) ==
  /\ nKeys > 0
  /\ curKey' = [curKey EXCEPT ![r] = getNextKeyIndex]
  /\ keyPointer' = getNextKeyPointer
  /\ selHist' = LastN(Append(selHist, getNextKeyIndex), nKeys)
  /\ poolCalled' = [poolCalled EXCEPT ![r] = TRUE]
  /\ ppc' = [ppc EXCEPT ![r] = "poolcall"]

\* getNextKey() throws when no key is configured: the outer catch
NoKey(r) ==
  /\ nKeys = 0
  /\ Abort(r, ErrNoKeys)
  /\ UNCHANGED <<keyPointer, selHist, poolCalled>>

\* the pool branch: providerUsed = 'openrouter', keyRetries = 0, first key
PoolEnter(r) ==
  /\ UNCHANGED poolUsed
  /\ keyFails' = [keyFails EXCEPT ![r] = 0]
  /\ lastKeyOut' = [lastKeyOut EXCEPT ![r] = "none"]
  /\ \/ /\ SelectKey(r)
        /\ providerUsed' = [providerUsed EXCEPT ![r] = "openrouter"]
        /\ keyRetries' = [keyRetries EXCEPT ![r] = 0]
        /\ UNCHANGED <<attempts, attemptLogs, historyUsage, pResult>>
     \/ NoKey(r)

\* cleanup, validation, the attempt log entry, and the return or the next round
Validate(r, text, prov, usage) ==
  LET html == CleanResponse(text)
      history == AddUsage(historyUsage[r], usage)
      validation == verifyRepairedTable(html)
      logs == Append(attemptLogs[r],
                     [attemptNumber |-> attempts[r] + 1, provider |-> prov,
                      valid |-> validation.valid])
  IN /\ poolUsed' = [poolUsed EXCEPT ![r] =
                       IF prov = "openrouter" THEN AddUsage(@, usage) ELSE @]
     /\ IF validation.valid
          THEN /\ pResult' = [pResult EXCEPT ![r] =
                    [done |-> TRUE, success |-> TRUE, repairedHtml |-> html,
                     error |-> "", provider |-> prov, hasLog |-> TRUE,
                     logLen |-> Len(logs), usage |-> history,
                     costBRL |-> IF prov = "openrouter"
                                   THEN calculateCost(history) ELSE 0]]
               /\ ppc' = [ppc EXCEPT ![r] = "done"]
               /\ LocalsGone(r)
          ELSE /\ attemptLogs' = [attemptLogs EXCEPT ![r] = logs]
               /\ historyUsage' = [historyUsage EXCEPT ![r] = history]
               /\ attempts' = [attempts EXCEPT ![r] = @ + 1]
               /\ ppc' = [ppc EXCEPT ![r] = "loop"]
               /\ curKey' = [curKey EXCEPT ![r] = 0]
               /\ UNCHANGED <<pResult, providerUsed, keyRetries>>

\* repairTableWithGemini is called: locals initialised
P_Start(r) ==
  /\ ppc[r] \in {"idle", "done"}
  /\ \E st \in {"hybrid", "openrouter"} :
       /\ pStrategy' = [pStrategy EXCEPT ![r] = st]
       /\ providerUsed' = [providerUsed EXCEPT ![r] =
                             IF st = "openrouter" THEN "openrouter" ELSE "google"]
  /\ attempts' = [attempts EXCEPT ![r] = 0]
  /\ attemptLogs' = [attemptLogs EXCEPT ![r] = <<>>]
  /\ historyUsage' = [historyUsage EXCEPT ![r] = NoUsage]
  /\ poolUsed' = [poolUsed EXCEPT ![r] = NoUsage]
  /\ pResult' = [pResult EXCEPT ![r] = NoResult]
  /\ tries' = [tries EXCEPT ![r] = 0]
  /\ primaryCalls' = [primaryCalls EXCEPT ![r] = 0]
  /\ poolCalled' = [poolCalled EXCEPT ![r] = FALSE]
  /\ keyFails' = [keyFails EXCEPT ![r] = 0]
  /\ lastKeyOut' = [lastKeyOut EXCEPT ![r] = "none"]
  /\ ppc' = [ppc EXCEPT ![r] = "loop"]
  /\ UNCHANGED <<keyPointer, selHist, keyRetries, curKey>>
  /\ ProtoFrame

\* while (attempts < MAX_VERIFICATION_ATTEMPTS): one more round, or the final
\* failure result with the attempt log
P_Loop(r) ==
  /\ ppc[r] = "loop"
  /\ IF attempts[r] < MAX_VERIFICATION_ATTEMPTS
       THEN /\ tries' = [tries EXCEPT ![r] = @ + 1]
            /\ IF UsePrimary(pStrategy[r], aiConfigured, attempts[r], providerUsed[r])
                 THEN /\ primaryCalls' = [primaryCalls EXCEPT ![r] = @ + 1]
                      /\ ppc' = [ppc EXCEPT ![r] = "primary"]
                      /\ UNCHANGED <<poolUsed, keyPointer, selHist, providerUsed, keyRetries, curKey,
                                     pResult, poolCalled, keyFails, lastKeyOut,
                                     attempts, attemptLogs, historyUsage>>
                 ELSE IF UsePool(aiConfigured, attempts[r], providerUsed[r])
                   THEN /\ PoolEnter(r)
                        /\ UNCHANGED primaryCalls
                   ELSE /\ Validate(r, <<>>, providerUsed[r], NoUsage)
                        /\ UNCHANGED <<keyPointer, selHist, primaryCalls, poolCalled, keyFails,
                                       lastKeyOut>>
       ELSE /\ pResult' = [pResult EXCEPT ![r] =
                 [done |-> TRUE, success |-> FALSE, repairedHtml |-> <<>>,
                  error |-> ErrValidation, provider |-> "", hasLog |-> TRUE,
                  logLen |-> Len(attemptLogs[r]), usage |-> NoUsage, costBRL |-> 0]]
            /\ ppc' = [ppc EXCEPT ![r] = "done"]
            /\ LocalsGone(r)
            /\ UNCHANGED <<poolUsed, keyPointer, selHist, tries, primaryCalls, poolCalled, keyFails,
                           lastKeyOut>>
  /\ UNCHANGED pStrategy
  /\ ProtoFrame

\* ai.models.generateContent answers with some text
P_PrimaryOk(r) ==
  /\ ppc[r] = "primary"
  /\ \E text \in Responses, usage \in PrimaryUsages :
       IF UsePool(aiConfigured, attempts[r], providerUsed[r])
         THEN PoolEnter(r)
         ELSE /\ Validate(r, text, providerUsed[r], usage)
              /\ UNCHANGED <<keyPointer, selHist, poolCalled, keyFails, lastKeyOut>>
  /\ UNCHANGED <<pStrategy, tries, primaryCalls>>
  /\ ProtoFrame

\* ai.models.generateContent throws: switch to the pool, within the same round
P_PrimaryFail(r) ==
  /\ ppc[r] = "primary"
  /\ PoolEnter(r)
  /\ UNCHANGED <<pStrategy, tries, primaryCalls>>
  /\ ProtoFrame

\* callOpenRouter answers with some text: keySuccess
P_PoolOk(r) ==
  /\ ppc[r] = "poolcall"
  /\ lastKeyOut' = [lastKeyOut EXCEPT ![r] = "ok"]
  /\ \E text \in Responses, usage \in PoolUsages : Validate(r, text, providerUsed[r], usage)
  /\ UNCHANGED <<keyPointer, selHist, pStrategy, tries, primaryCalls, poolCalled, keyFails>>
  /\ ProtoFrame

\* callOpenRouter throws (KEY_EXHAUSTED on 401/402, or any other error):
\* keyRetries++, then await delay(500); curKey stays the key that was tried
\* until the next getNextKey()
P_PoolErr(r) ==
  /\ ppc[r] = "poolcall"
  /\ \E e \in {"KEY_EXHAUSTED", "OpenRouter API Error"} :
       lastKeyOut' = [lastKeyOut EXCEPT ![r] = e]
  /\ keyFails' = [keyFails EXCEPT ![r] = @ + 1]
  /\ keyRetries' = [keyRetries EXCEPT ![r] = @ + 1]
  /\ ppc' = [ppc EXCEPT ![r] = "delay"]
  /\ UNCHANGED <<curKey, poolUsed, keyPointer, selHist, pStrategy, attempts, providerUsed, attemptLogs, historyUsage,
                 pResult, tries, primaryCalls, poolCalled>>
  /\ ProtoFrame

\* after the delay: the next key while keyRetries < 3, else
\* throw new Error("All OpenRouter keys failed.")
P_DelayDone(r) ==
  /\ ppc[r] = "delay"
  /\ IF keyRetries[r] < KeyRetryLimit
       THEN \/ /\ SelectKey(r)
               /\ UNCHANGED <<attempts, providerUsed, keyRetries, attemptLogs, historyUsage, pResult>>
            \/ NoKey(r)
       ELSE /\ Abort(r, ErrAllKeys)
            /\ UNCHANGED <<keyPointer, selHist, poolCalled>>
  /\ UNCHANGED <<pStrategy, tries, primaryCalls, keyFails, lastKeyOut, poolUsed>>
  /\ ProtoFrame

ProtoNext ==
  \E r \in Runs :
    \/ P_Start(r) \/ P_Loop(r)
    \/ P_PrimaryOk(r) \/ P_PrimaryFail(r)
    \/ P_PoolOk(r) \/ P_PoolErr(r) \/ P_DelayDone(r)

\* no protocol run in progress, no key configured
ProtoIdle ==
  /\ pStrategy = [r \in Runs |-> "hybrid"]
  /\ ppc = [r \in Runs |-> "idle"]
  /\ attempts = [r \in Runs |-> 0]
  /\ providerUsed = [r \in Runs |-> "google"]
  /\ keyRetries = [r \in Runs |-> 0]
  /\ curKey = [r \in Runs |-> 0]
  /\ attemptLogs = [r \in Runs |-> <<>>]
  /\ historyUsage = [r \in Runs |-> NoUsage]
  /\ poolUsed = [r \in Runs |-> NoUsage]
  /\ pResult = [r \in Runs |-> NoResult]
  /\ tries = [r \in Runs |-> 0]
  /\ primaryCalls = [r \in Runs |-> 0]
  /\ poolCalled = [r \in Runs |-> FALSE]
  /\ keyFails = [r \in Runs |-> 0]
  /\ lastKeyOut = [r \in Runs |-> "none"]
  /\ keyPointer = 0
  /\ selHist = <<>>

(***************************************************************************)
(* auditService.ts: the grid builder (body rows of buildGrid)              *)
(***************************************************************************)
MaxRows == 3
MaxCells == 2

\* values of a cell's colspan and rowspan attributes ("none": no attribute)
ColspanAttrs == {"none", "2"}
RowspanAttrs == {"none", "0", "3"}

\* a td or th without span attributes and without a table inside
PlainCell == [colspan |-> "none", rowspan |-> "none", nested |-> <<>>, content |-> TRUE]

\* the td and th elements of a row: their span attributes, whether
\* cellHasContent holds of the cell and, for a cell that holds a nested table,
\* the cells of that table
CellEls ==
  [colspan : ColspanAttrs, rowspan : RowspanAttrs, nested : {<<>>}, content : {TRUE}]
    \cup {[colspan |-> "none", rowspan |-> "none", nested |-> <<PlainCell, PlainCell>>,
            content |-> TRUE]}

RowEls == UNION {[1..n -> CellEls] : n \in 0..MaxCells}

BodyRowEls == UNION {[1..n -> RowEls] : n \in 0..MaxRows}

NotANumber == -1

\* parseInt(v ?? '', 10) on the attribute values of the model
ParseInt(v) ==
  CASE v = "0" -> 0
    [] v = "1" -> 1
    [] v = "2" -> 2
    [] v = "3" -> 3
    [] OTHER -> NotANumber

\* safeInt(v, 1): the fallback for what is not a number or is less than 1
safeInt(v) == IF ParseInt(v) = NotANumber \/ ParseInt(v) < 1 THEN 1 ELSE ParseInt(v)

\* no column index of a grid of the model reaches this width
GridWidth == MaxRows * MaxCells * 3 + 1

GridCols == 0..(GridWidth - 1)

NoPending == [c \in GridCols |-> 0]

RECURSIVE nextFreeCol(_, _)
nextFreeCol(pendingRowspans, startCol) ==
  IF startCol \in GridCols /\ pendingRowspans[startCol] > 0
    THEN nextFreeCol(pendingRowspans, startCol + 1)
    ELSE startCol

computeRowWidth(pendingRowspans, placedRightEdge) ==
  LET edges == {placedRightEdge} \cup {c + 1 : c \in {d \in GridCols : pendingRowspans[d] > 0}}
  IN CHOOSE m \in edges : \A e \in edges : e <= m

\* tr.querySelectorAll('td, th'): every cell below the row in document order,
\* those of nested tables included
RECURSIVE QueryCells(_)
QueryCells(tr) ==
  IF tr = <<>> THEN <<>> ELSE <<Head(tr)>> \o Head(tr).nested \o QueryCells(Tail(tr))

\* colHasContent after a cell with content was placed at col: the array
\* grows to col + colspan when it is shorter, and the cell's columns are set
MarkContent(colHasContent, col, colspan) ==
  LET needed == col + colspan
      len == IF needed > Len(colHasContent) THEN needed ELSE Len(colHasContent)
  IN [i \in 1..len |->
        IF col < i /\ i <= col + colspan THEN TRUE
        ELSE IF i <= Len(colHasContent) THEN colHasContent[i] ELSE FALSE]

\* the loop over the cells of one row, from cell k on; st holds col,
\* placedRightEdge, pendingRowspans, bodyCells and colHasContent
RECURSIVE PlaceCells(_, _, _, _)
PlaceCells(cells, k, rIdx, st) ==
  IF k > Len(cells) THEN st
  ELSE LET col == nextFreeCol(st.pendingRowspans, st.col)
           colspan == safeInt(cells[k].colspan)
           rowspan == safeInt(cells[k].rowspan)
           covered == {c \in GridCols : col <= c /\ c < col + colspan}
           pending == IF rowspan > 1
                        THEN [c \in GridCols |->
                                IF c \in covered /\ st.pendingRowspans[c] < rowspan - 1
                                  THEN rowspan - 1 ELSE st.pendingRowspans[c]]
                        ELSE st.pendingRowspans
       IN PlaceCells(cells, k + 1, rIdx,
            [col |-> col + colspan,
             placedRightEdge |-> IF col + colspan > st.placedRightEdge
                                   THEN col + colspan ELSE st.placedRightEdge,
             pendingRowspans |-> pending,
             colHasContent |-> IF cells[k].content
                                 THEN MarkContent(st.colHasContent, col, colspan)
                                 ELSE st.colHasContent,
             bodyCells |-> Append(st.bodyCells,
                             [row |-> rIdx, col |-> col, colspan |-> colspan,
                              rowspan |-> rowspan, content |-> cells[k].content])])

\* bodyRowEls.forEach, from row rIdx on
RECURSIVE BuildRows(_, _, _)
BuildRows(bodyRowEls, rIdx, acc) ==
  IF rIdx >= Len(bodyRowEls) THEN acc
  ELSE LET st == PlaceCells(QueryCells(bodyRowEls[rIdx + 1]), 1, rIdx,
                   [col |-> 0, placedRightEdge |-> 0,
                    pendingRowspans |-> acc.pendingRowspans,
                    colHasContent |-> acc.colHasContent,
                    bodyCells |-> acc.bodyCells])
       IN BuildRows(bodyRowEls, rIdx + 1,
            [rowWidths |-> Append(acc.rowWidths,
                             computeRowWidth(st.pendingRowspans, st.placedRightEdge)),
             bodyCells |-> st.bodyCells,
             colHasContent |-> st.colHasContent,
             pendingRowspans |-> [c \in GridCols |->
                                    IF st.pendingRowspans[c] > 0
                                      THEN st.pendingRowspans[c] - 1 ELSE 0]])

MaxHeaderCells == 3

\* the th and td elements of the header row: the colspan attribute and
\* whether the text holds one of the words of a financial table
HeaderCellEls == [colspan : ColspanAttrs, keyword : BOOLEAN]

HeaderRowEls == UNION {[1..n -> HeaderCellEls] : n \in 0..MaxHeaderCells}

RECURSIVE computeExpectedColsFromHeader(_)
computeExpectedColsFromHeader(headerCells) ==
  IF headerCells = <<>> THEN 0
  ELSE safeInt(Head(headerCells).colspan) + computeExpectedColsFromHeader(Tail(headerCells))

\* Math.max(0, ...rowWidths)
RECURSIVE MaxWidth(_)
MaxWidth(rowWidths) ==
  IF rowWidths = <<>> THEN 0
  ELSE LET m == MaxWidth(Tail(rowWidths))
       IN IF Head(rowWidths) > m THEN Head(rowWidths) ELSE m

\* buildGrid(headerRowEl, bodyRowEls): expectedCols, rowWidths, bodyCells and
\* the normalised colHasContent
buildGrid(headerRowCellsEls, bodyRowEls) ==
  LET expectedCols == computeExpectedColsFromHeader(headerRowCellsEls)
      built == BuildRows(bodyRowEls, 0,
                 [rowWidths |-> <<>>, bodyCells |-> <<>>, pendingRowspans |-> NoPending,
                  colHasContent |->
                    [i \in 1..(IF expectedCols > 1 THEN expectedCols ELSE 1) |-> FALSE]])
      derivedExpected == IF expectedCols > 0 THEN expectedCols ELSE MaxWidth(built.rowWidths)
      finalWidth == IF derivedExpected > Len(built.colHasContent)
                      THEN derivedExpected ELSE Len(built.colHasContent)
  IN [expectedCols |-> derivedExpected,
      rowWidths |-> built.rowWidths,
      bodyCells |-> built.bodyCells,
      pendingRowspans |-> built.pendingRowspans,
      colHasContent |-> [i \in 1..finalWidth |->
                           IF i <= Len(built.colHasContent)
                             THEN built.colHasContent[i] ELSE FALSE]]

NoGrid == [expectedCols |-> 0, rowWidths |-> <<>>, bodyCells |-> <<>>,
           pendingRowspans |-> NoPending, colHasContent |-> <<>>]

GridIdle ==
  /\ gridRows = <<>>
  /\ grid = NoGrid
  /\ gridPc = "idle"
  /\ headerRow = <<>>
  /\ firstIssues = <<>>
  /\ secondIssues = <<>>
  /\ rng = 0

NoUpload == [isArray |-> TRUE, questoes |-> <<>>, others |-> {}]
NoOutput == [isArray |-> TRUE, questoes |-> <<>>, others |-> {"no file"}]

NoPath == "none"

\* no upload is being followed
DocIdle ==
  /\ upload = NoUpload
  /\ severityFilter = "BAD"
  /\ dpc = "idle"
  /\ filteredIssues = <<>>
  /\ cursor = 1
  /\ taskMap = <<>>
  /\ taskRows = <<>>
  /\ jobs = <<>>
  /\ docBatch = [status |-> "none", phase |-> "none", outputFilePath |-> NoPath]
  /\ questions = <<>>
  /\ completedTasks = <<>>
  /\ outputData = NoOutput
  /\ genFailed = FALSE

\* the module is loaded: keys read from the environment, pointer at 0; the
\* worker side has handled no upload and runs with the default configuration
ProtoInit ==
  /\ WorkerInit
  /\ queueCeiling = MaxQueueCeiling
  /\ colMaxAttempts = 0
  /\ nKeys \in 0..MaxKeys
  /\ aiConfigured \in BOOLEAN
  /\ ProtoIdle
  /\ DocIdle
  /\ GridIdle

ProtoSpec == ProtoInit /\ [][ProtoNext]_vars

(***************************************************************************)
(* One upload followed from the audit to the output file: auditService.ts  *)
(* (auditData), the upload route's task creation, addBulkRepairJobs, and   *)
(* generateOutputFile / domReplace of repairWorker.ts.                     *)
(*                                                                         *)
(* A field value is modelled by what the audit and domReplace see of it:   *)
(* whether it holds a Markdown table, its top-level tables in document     *)
(* order (each with the issues analyzeTable finds in it and whether a      *)
(* table is nested in one of its cells), and whether the string is the     *)
(* uploaded one ("raw") or a serialisation of the parsed DOM ("dom").      *)
(***************************************************************************)
MaxQuestions == 2

\* FIELDS_TO_AUDIT, in its order (two of the four fields)
FIELDS_TO_AUDIT == <<"enunciado", "resolucao">>
Fields == {FIELDS_TO_AUDIT[i] : i \in 1..Len(FIELDS_TO_AUDIT)}

SeverityFilters == {"BAD", "WARN", "ALL"}

UploadedTable(issues, nested) ==
  [by |-> "upload", task |-> 0, issues |-> issues, nested |-> nested]

\* the table a nested <table> element stands for
NestedTable == [by |-> "nested", task |-> 0, issues |-> <<>>, nested |-> FALSE]

\* the markup the repair of task id returned: one validated table
RepairedTable(id) == [by |-> "repair", task |-> id, issues |-> <<>>, nested |-> FALSE]

FieldValue(md, tables) == [md |-> md, form |-> "raw", tables |-> tables]

\* the field values of the uploads of the model: those of the first audited
\* field, and the smaller choice for the other fields
SecondaryFieldValues ==
  { FieldValue(FALSE, <<>>),
    FieldValue(FALSE, <<UploadedTable(<<"BAD">>, FALSE)>>) }

FieldValues ==
  { FieldValue(FALSE, <<>>),
    FieldValue(TRUE, <<>>),
    FieldValue(FALSE, <<UploadedTable(<<"WARN">>, FALSE)>>),
    FieldValue(FALSE, <<UploadedTable(<<>>, FALSE), UploadedTable(<<"BAD", "BAD">>, FALSE)>>),
    FieldValue(TRUE, <<UploadedTable(<<"WARN", "BAD">>, TRUE), UploadedTable(<<"BAD">>, FALSE)>>) }

QuestionValues ==
  {q \in [Fields -> FieldValues \cup SecondaryFieldValues] :
     \A k \in 2..Len(FIELDS_TO_AUDIT) : q[FIELDS_TO_AUDIT[k]] \in SecondaryFieldValues}

QuestionLists == UNION {[1..n -> QuestionValues] : n \in 1..MaxQuestions}

\* a bare array of questions, or an object with a questoes array and one
\* other member
Uploads ==
  {[isArray |-> TRUE, questoes |-> qs, others |-> {}] : qs \in QuestionLists}
    \cup {[isArray |-> FALSE, questoes |-> qs, others |-> {"titulo"}] : qs \in QuestionLists}

\* doc.querySelectorAll('table'): every table element in document order, with
\* the number of table elements among its ancestors
RECURSIVE AllTables(_)
AllTables(tables) ==
  IF tables = <<>> THEN <<>>
  ELSE <<[el |-> Head(tables), depth |-> 0]>>
         \o (IF Head(tables).nested THEN <<[el |-> NestedTable, depth |-> 1]>> ELSE <<>>)
         \o AllTables(Tail(tables))

RECURSIVE Elements(_)
Elements(entries) ==
  IF entries = <<>> THEN <<>> ELSE <<Head(entries).el>> \o Elements(Tail(entries))

IsTopLevel(entry) == entry.depth = 0

\* extractTopLevelTables, and the same filter in domReplace
TopLevelTables(value) == Elements(SelectSeq(AllTables(value.tables), IsTopLevel))

\* /<table/i.test(value)
HasTableTag(value) == AllTables(value.tables) # <<>>

\* a non-empty string
Truthy(value) == value.md \/ value.tables # <<>>

Issue(qi, f, idx, severity, type) ==
  [questionIndex |-> qi, field |-> f, tableIndex |-> idx, severity |-> severity, type |-> type]

\* analyzeTable on the idx-th top-level table: its issues, in order
analyzeTable(table, qi, f, idx) ==
  [k \in 1..Len(table.issues) |-> Issue(qi, f, idx, table.issues[k], "TABLE_ISSUE")]

RECURSIVE IssuesOfTables(_, _, _, _)
IssuesOfTables(tables, qi, f, idx) ==
  IF idx >= Len(tables) THEN <<>>
  ELSE analyzeTable(tables[idx + 1], qi, f, idx) \o IssuesOfTables(tables, qi, f, idx + 1)

\* the body of FIELDS_TO_AUDIT.forEach for one field of question qi
IssuesOfField(q, qi, f) ==
  LET value == q[f] IN
  IF ~Truthy(value) THEN <<>>
  ELSE (IF value.md /\ ~HasTableTag(value)
          THEN <<Issue(qi, f, 0, "BAD", "MARKDOWN_TABLE_IN_FIELD")>> ELSE <<>>)
         \o IssuesOfTables(TopLevelTables(value), qi, f, 0)

RECURSIVE IssuesOfQuestion(_, _, _)
IssuesOfQuestion(q, qi, k) ==
  IF k > Len(FIELDS_TO_AUDIT) THEN <<>>
  ELSE IssuesOfField(q, qi, FIELDS_TO_AUDIT[k]) \o IssuesOfQuestion(q, qi, k + 1)

RECURSIVE IssuesFrom(_, _)
IssuesFrom(qs, qi) ==
  IF qi >= Len(qs) THEN <<>>
  ELSE IssuesOfQuestion(qs[qi + 1], qi, 1) \o IssuesFrom(qs, qi + 1)

\* auditData(jsonData).issues
auditData(data) == IssuesFrom(data.questoes, 0)

KeepsIssue(filter, issue) == IF filter = "BAD" THEN issue.severity = "BAD" ELSE TRUE

\* the route's filteredIssues
FilterIssues(issues, filter) ==
  IF filter = "ALL" THEN issues
  ELSE LET Keep(i) == KeepsIssue(filter, i) IN SelectSeq(issues, Keep)

\* the route's key of an issue: questionIndex-field-tableIndex
IssueKey(issue) == <<issue.questionIndex, issue.field, issue.tableIndex>>

\* a Map that never finds a key
MapHas_Never(map, key) == FALSE

\* taskMap.has(key)
MapHas(map, key) == \E i \in 1..Len(map) : map[i].key = key

\* a priority that falls with the position
JobPriority_Descending(index) == 0 - index

\* addBulkRepairJobs: priority: index
JobPriority(index) == index

\* addBulkRepairJobs: one job per payload, in the order of the payloads
addBulkRepairJobs(payloads) ==
  [i \in 1..Len(payloads) |->
     [jobId |-> payloads[i].taskId, priority |-> JobPriority(i - 1),
      questionIndex |-> payloads[i].questionIndex]]

RemoveAt(seq, i) == SubSeq(seq, 1, i - 1) \o SubSeq(seq, i + 1, Len(seq))

\* body.innerHTML after the change
Serialized(value, tables) == [md |-> value.md, form |-> "dom", tables |-> tables]

\* a domReplace that serialises the document also when the index is out of range
domReplace_AlwaysSerializes(fullHtml, newTableHtml, tableIndex) ==
  LET allTables == TopLevelTables(fullHtml) IN
  IF tableIndex >= Len(allTables) THEN Serialized(fullHtml, fullHtml.tables)
  ELSE IF newTableHtml = <<>>
         THEN Serialized(fullHtml, RemoveAt(allTables, tableIndex + 1))
         ELSE Serialized(fullHtml, [allTables EXCEPT ![tableIndex + 1] = Head(newTableHtml)])

\* domReplace: newTableHtml is a sequence of tables, empty for the empty string
domReplace(fullHtml, newTableHtml, tableIndex) ==
  LET allTables == TopLevelTables(fullHtml) IN
  IF tableIndex >= Len(allTables) THEN fullHtml
  ELSE IF newTableHtml = <<>>
         THEN Serialized(fullHtml, RemoveAt(allTables, tableIndex + 1))
         ELSE Serialized(fullHtml, [allTables EXCEPT ![tableIndex + 1] = Head(newTableHtml)])

\* the body of the loop over the completed tasks, for one task
ApplyTask(qs, task) ==
  IF task.questionIndex >= Len(qs) THEN qs
  ELSE IF ~(task.repairedHtml # <<>> /\ task.status = "COMPLETED") THEN qs
  ELSE LET originalFieldValue == qs[task.questionIndex + 1][task.field] IN
       IF ~Truthy(originalFieldValue) THEN qs
       ELSE [qs EXCEPT ![task.questionIndex + 1][task.field] =
               domReplace(originalFieldValue, task.repairedHtml, task.tableIndex)]

TaskBefore(a, b) ==
  \/ a.questionIndex < b.questionIndex
  \/ a.questionIndex = b.questionIndex /\ a.tableIndex < b.tableIndex

RECURSIVE InsertTask(_, _)
InsertTask(sorted, task) ==
  IF sorted = <<>> THEN <<task>>
  ELSE IF TaskBefore(task, Head(sorted)) THEN <<task>> \o sorted
  ELSE <<Head(sorted)>> \o InsertTask(Tail(sorted), task)

RECURSIVE SortTasks(_)
SortTasks(rows) ==
  IF rows = <<>> THEN <<>>
  ELSE InsertTask(SortTasks(SubSeq(rows, 1, Len(rows) - 1)), rows[Len(rows)])

IsCompleted(row) == row.status = "COMPLETED"

\* getCompletedTasksGroupedByQuestion: the COMPLETED rows by questionIndex, then
\* tableIndex; rows equal in both keep their creation order (they belong to
\* different fields, so their order has no effect)
getCompletedTasksGroupedByQuestion(rows) == SortTasks(SelectSeq(rows, IsCompleted))

\* an output that is always a bare array
OutputOf_BareArray(originalData, qs) == [isArray |-> TRUE, questoes |-> qs, others |-> {}]

\* outputData: questions, or {...originalData, questoes: questions}
OutputOf(originalData, qs) ==
  IF originalData.isArray
    THEN [isArray |-> TRUE, questoes |-> qs, others |-> {}]
    ELSE [originalData EXCEPT !.questoes = qs]

DocFrame == UNCHANGED <<workerVars, protoVars, gridVars>>

\* how a task ends in the worker: COMPLETED with the repaired table, FAILED, or
\* a COMPLETED row whose repairedHtml is the empty string, the "remove" signal
\* of output reconstruction (no run of repairTableWithGemini returns it)
TaskOutcomes == {"repaired", "empty", "failed"}

\* updateBatchStatus(PROCESSING, AUDIT); auditData; filteredIssues
D_Audit ==
  /\ dpc = "audit"
  /\ docBatch' = [docBatch EXCEPT !.status = "PROCESSING", !.phase = "AUDIT"]
  /\ filteredIssues' = FilterIssues(auditData(upload), severityFilter)
  /\ cursor' = 1
  /\ dpc' = "tasks"
  /\ UNCHANGED <<upload, severityFilter, taskMap, taskRows, jobs, questions, completedTasks,
                 outputData, genFailed>>
  /\ DocFrame

\* one round of the loop over filteredIssues: createTask and taskMap.set for
\* the first issue of a key
D_Issue ==
  /\ dpc = "tasks" /\ cursor <= Len(filteredIssues)
  /\ LET issue == filteredIssues[cursor]
         key == IssueKey(issue)
         id == Len(taskRows) + 1
     IN IF MapHas(taskMap, key)
          THEN UNCHANGED <<taskMap, taskRows>>
          ELSE /\ taskRows' = Append(taskRows,
                      [id |-> id, questionIndex |-> issue.questionIndex,
                       field |-> issue.field, tableIndex |-> issue.tableIndex,
                       issueType |-> issue.type, severity |-> issue.severity,
                       status |-> "PENDING", repairedHtml |-> <<>>])
               /\ taskMap' = Append(taskMap,
                      [key |-> key, taskId |-> id, questionIndex |-> issue.questionIndex,
                       field |-> issue.field, tableIndex |-> issue.tableIndex])
  /\ cursor' = cursor + 1
  /\ UNCHANGED <<upload, severityFilter, dpc, filteredIssues, jobs, docBatch, questions,
                 completedTasks, outputData, genFailed>>
  /\ DocFrame

\* jobs = Array.from(taskMap.values()); addBulkRepairJobs(jobs);
\* updateBatchStatus(PROCESSING, REPAIR)
D_Enqueue ==
  /\ dpc = "tasks" /\ cursor > Len(filteredIssues)
  /\ jobs' = addBulkRepairJobs(taskMap)
  /\ docBatch' = [docBatch EXCEPT !.status = "PROCESSING", !.phase = "REPAIR"]
  /\ cursor' = 1
  /\ dpc' = "workers"
  /\ UNCHANGED <<upload, severityFilter, filteredIssues, taskMap, taskRows, questions,
                 completedTasks, outputData, genFailed>>
  /\ DocFrame

\* the worker's last status write for the task of the next job
D_Settle(outcome) ==
  /\ dpc = "workers" /\ cursor <= Len(jobs)
  /\ LET id == jobs[cursor].jobId IN
       taskRows' = [taskRows EXCEPT ![id] =
         IF outcome = "failed" THEN [@ EXCEPT !.status = "FAILED"]
         ELSE [@ EXCEPT !.status = "COMPLETED",
                        !.repairedHtml = IF outcome = "repaired"
                                           THEN <<RepairedTable(id)>> ELSE <<>>]]
  /\ cursor' = cursor + 1
  /\ UNCHANGED <<upload, severityFilter, dpc, filteredIssues, taskMap, jobs, docBatch,
                 questions, completedTasks, outputData, genFailed>>
  /\ DocFrame

\* checkBatchCompletion after the last job; generateOutputFile reads and parses
\* the original file and fetches the completed tasks, or fails doing so
G_Read ==
  /\ dpc = "workers" /\ cursor > Len(jobs) /\ Len(jobs) >= 1
  /\ \/ /\ questions' = upload.questoes
        /\ completedTasks' = getCompletedTasksGroupedByQuestion(taskRows)
        /\ cursor' = 1
        /\ dpc' = "apply"
        /\ UNCHANGED genFailed
     \/ /\ genFailed' = TRUE
        /\ dpc' = "status"
        /\ UNCHANGED <<questions, completedTasks, cursor>>
  /\ UNCHANGED <<upload, severityFilter, filteredIssues, taskMap, taskRows, jobs, docBatch,
                 outputData>>
  /\ DocFrame

\* one round of the loops over tasksMap and its tasks
G_Apply ==
  /\ dpc = "apply" /\ cursor <= Len(completedTasks)
  /\ questions' = ApplyTask(questions, completedTasks[cursor])
  /\ cursor' = cursor + 1
  /\ UNCHANGED <<upload, severityFilter, dpc, filteredIssues, taskMap, taskRows, jobs,
                 docBatch, completedTasks, outputData, genFailed>>
  /\ DocFrame

\* a generateOutputFile that stores the path before it writes the file
G_Write_PathBeforeWrite ==
  /\ dpc = "apply" /\ cursor > Len(completedTasks)
  /\ docBatch' = [docBatch EXCEPT !.outputFilePath = "output file"]
  /\ \/ /\ outputData' = OutputOf(upload, questions)
        /\ UNCHANGED genFailed
     \/ /\ genFailed' = TRUE
        /\ UNCHANGED outputData
  /\ dpc' = "status"
  /\ UNCHANGED <<upload, severityFilter, filteredIssues, cursor, taskMap, taskRows, jobs,
                 questions, completedTasks>>
  /\ DocFrame

\* mkdir, writeFile, setBatchOutputFile: all done, or the write fails, or the
\* file is written and setBatchOutputFile fails
G_Write ==
  /\ dpc = "apply" /\ cursor > Len(completedTasks)
  /\ \/ /\ outputData' = OutputOf(upload, questions)
        /\ docBatch' = [docBatch EXCEPT !.outputFilePath = "output file"]
        /\ UNCHANGED genFailed
     \/ /\ genFailed' = TRUE
        /\ UNCHANGED <<outputData, docBatch>>
     \/ /\ outputData' = OutputOf(upload, questions)
        /\ genFailed' = TRUE
        /\ UNCHANGED docBatch
  /\ dpc' = "status"
  /\ UNCHANGED <<upload, severityFilter, filteredIssues, cursor, taskMap, taskRows, jobs,
                 questions, completedTasks>>
  /\ DocFrame

\* checkBatchCompletion: updateBatchStatus(COMPLETED, DONE)
D_Done ==
  /\ dpc = "status"
  /\ docBatch' = [docBatch EXCEPT !.status = "COMPLETED", !.phase = "DONE"]
  /\ dpc' = "done"
  /\ UNCHANGED <<upload, severityFilter, filteredIssues, cursor, taskMap, taskRows, jobs,
                 questions, completedTasks, outputData, genFailed>>
  /\ DocFrame

DocNext ==
  \/ D_Audit \/ D_Issue \/ D_Enqueue
  \/ \E outcome \in TaskOutcomes : D_Settle(outcome)
  \/ G_Read \/ G_Apply \/ G_Write \/ D_Done

\* the route has parsed the file and the options and created the batch; the
\* worker and protocol state machines stay idle
DocInit ==
  /\ WorkerInit
  /\ queueCeiling = MaxQueueCeiling
  /\ colMaxAttempts = 0
  /\ ProtoIdle
  /\ nKeys = 0
  /\ aiConfigured = FALSE
  /\ upload \in Uploads
  /\ severityFilter \in SeverityFilters
  /\ dpc = "audit"
  /\ filteredIssues = <<>>
  /\ cursor = 1
  /\ taskMap = <<>>
  /\ taskRows = <<>>
  /\ jobs = <<>>
  /\ docBatch = [status |-> "PENDING", phase |-> "UPLOAD", outputFilePath |-> NoPath]
  /\ questions = <<>>
  /\ completedTasks = <<>>
  /\ outputData = NoOutput
  /\ genFailed = FALSE
  /\ GridIdle

DocSpec == DocInit /\ [][DocNext]_vars

(***************************************************************************)
(* One call of buildGrid                                                   *)
(***************************************************************************)
GridBuild ==
  /\ gridPc = "table"
  /\ grid' = buildGrid(headerRow, gridRows)
  /\ gridPc' = "built"
  /\ UNCHANGED <<gridRows, headerRow, firstIssues, secondIssues, rng, workerVars, protoVars, docVars>>

GridNext == GridBuild

\* analyzeTable has found the body rows of a table; everything else is idle
GridInit ==
  /\ WorkerInit
  /\ queueCeiling = MaxQueueCeiling
  /\ colMaxAttempts = 0
  /\ ProtoIdle
  /\ nKeys = 0
  /\ aiConfigured = FALSE
  /\ DocIdle
  /\ gridRows \in BodyRowEls
  /\ grid = NoGrid
  /\ gridPc = "table"
  /\ headerRow = <<>>
  /\ firstIssues = <<>>
  /\ secondIssues = <<>>
  /\ rng = 0

GridSpec == GridInit /\ [][GridNext]_vars

(***************************************************************************)
(* auditService.ts: analyzeTable, called twice on the same table           *)
(***************************************************************************)
MaxBodyRows == 2
RngPeriod == 3

\* the body cells of the tables analysed: a cell with content and no span,
\* one with colspan 2, one with rowspan 3, and the empty cell
TableCellEls ==
  {PlainCell,
   [colspan |-> "2", rowspan |-> "none", nested |-> <<>>, content |-> TRUE],
   [colspan |-> "none", rowspan |-> "3", nested |-> <<>>, content |-> TRUE],
   [colspan |-> "none", rowspan |-> "none", nested |-> <<>>, content |-> FALSE]}

TableRowEls == UNION {[1..n -> TableCellEls] : n \in 0..MaxCells}

TableBodyEls == UNION {[1..n -> TableRowEls] : n \in 0..MaxBodyRows}

\* a location without row or without col
NoLocation == -1

\* uid(): Math.random() is a generator with a hidden state; a call returns a
\* value of the state and moves the state on
uid(state) == state

NextRandom(state) == (state + 1) % RngPeriod

\* createIssue without the context fields, which are the same for every issue
\* of a table
createIssue(id, severity, type, row, col) ==
  [id |-> id, severity |-> severity, type |-> type, row |-> row, col |-> col]

\* what createIssue is called with, in the order of the calls
IssueArgs(severity, type, row, col) ==
  [severity |-> severity, type |-> type, row |-> row, col |-> col]

\* the header texts hold one of the words of a financial table
isFinancial(headerCellsEls) ==
  \E i \in 1..Len(headerCellsEls) : headerCellsEls[i].keyword

\* 4) to 6): NO_HEADER, TABLE_1x1, EMPTY_TABLE; the table has a header row
HeaderRowIssues(headerCellsEls, bodyRows, g) ==
  (IF Len(headerCellsEls) = 0
     THEN <<IssueArgs("WARN", "NO_HEADER", NoLocation, NoLocation)>> ELSE <<>>)
  \o (IF 1 + Len(bodyRows) = 1 /\ g.expectedCols = 1
        THEN <<IssueArgs("WARN", "TABLE_1x1", NoLocation, NoLocation)>> ELSE <<>>)
  \o (IF Len(bodyRows) = 0
        THEN <<IssueArgs("WARN", "EMPTY_TABLE", NoLocation, NoLocation)>> ELSE <<>>)

\* the count of the trailing entries of colHasContent that are false
RECURSIVE TrailingEmpty(_)
TrailingEmpty(colHasContent) ==
  IF colHasContent = <<>> \/ colHasContent[Len(colHasContent)] THEN 0
  ELSE 1 + TrailingEmpty(SubSeq(colHasContent, 1, Len(colHasContent) - 1))

GhostSeverity_AlwaysWarn(cIdx, expectedCols) == "WARN"

GhostSeverity(cIdx, expectedCols) == IF cIdx = expectedCols - 1 THEN "BAD" ELSE "WARN"

\* 9) ghost columns
GhostIssues(g, bodyRows) ==
  IF g.expectedCols > 1 /\ Len(bodyRows) > 0
    THEN LET colHasContent == SubSeq(g.colHasContent, 1, g.expectedCols)
             trailing == TrailingEmpty(colHasContent)
             empty == SelectSeq([i \in 1..Len(colHasContent) |-> i - 1],
                                LAMBDA c : ~colHasContent[c + 1])
         IN IF trailing >= 3
              THEN <<IssueArgs("BAD", "GHOST_COLUMNS", NoLocation, NoLocation)>>
              ELSE [k \in 1..Len(empty) |->
                      IssueArgs(GhostSeverity(empty[k], g.expectedCols), "GHOST_COLUMN",
                                NoLocation, empty[k])]
    ELSE <<>>

RowMismatch_OnlyWider(w, expectedCols) == expectedCols > 0 /\ w > expectedCols

RowMismatch(w, expectedCols) == expectedCols > 0 /\ w # expectedCols

\* 10) row width mismatch
MismatchIssues(g) ==
  LET rows == SelectSeq([i \in 1..Len(g.rowWidths) |-> i - 1],
                        LAMBDA r : RowMismatch(g.rowWidths[r + 1], g.expectedCols))
  IN [k \in 1..Len(rows) |-> IssueArgs("BAD", "COL_MISMATCH", rows[k], NoLocation)]

\* cellsByRow.get(r): the cells placed in row r
CellsByRow(g, r) == {i \in 1..Len(g.bodyCells) : g.bodyCells[i].row = r}

\* covered[c] of row r: a cell placed in row r lies over column c
Covered(g, r, c) ==
  /\ 0 <= c /\ c < g.expectedCols
  /\ \E i \in CellsByRow(g, r) :
       g.bodyCells[i].col <= c /\ c < g.bodyCells[i].col + g.bodyCells[i].colspan

\* 12) hole detection
HoleIssues(g, bodyRows, financial) ==
  IF financial THEN <<>>
  ELSE LET n == g.expectedCols
           cells == [k \in 1..(Len(bodyRows) * n) |-> <<(k - 1) \div n, (k - 1) % n>>]
           holes == SelectSeq(cells,
                      LAMBDA p :
                        /\ Cardinality(CellsByRow(g, p[1])) >= 2
                        /\ 1 <= p[2] /\ p[2] < n - 1
                        /\ ~Covered(g, p[1], p[2])
                        /\ Covered(g, p[1], p[2] - 1)
                        /\ Covered(g, p[1], p[2] + 1))
       IN [k \in 1..Len(holes) |->
             IssueArgs("WARN", "CELL_HOLE", holes[k][1], holes[k][2])]

\* table.querySelectorAll('[rowspan]'): the cells of all rows in document order
RECURSIVE AllCells(_)
AllCells(rows) ==
  IF rows = <<>> THEN <<>> ELSE QueryCells(Head(rows)) \o AllCells(Tail(rows))

\* INVALID_ROWSPAN: a rowspan attribute greater than the number of rows
RowspanIssues(bodyRows) ==
  LET tooLong == SelectSeq(AllCells(bodyRows),
                   LAMBDA el : el.rowspan # "none" /\ safeInt(el.rowspan) > 1 + Len(bodyRows))
  IN [k \in 1..Len(tooLong) |-> IssueArgs("BAD", "INVALID_ROWSPAN", NoLocation, NoLocation)]

\* the calls of createIssue that analyzeTable makes for a table whose cells
\* hold plain text, in order; g is the grid it has built
IssueCalls(headerCellsEls, bodyRows, g) ==
  HeaderRowIssues(headerCellsEls, bodyRows, g)
    \o GhostIssues(g, bodyRows)
    \o MismatchIssues(g)
    \o HoleIssues(g, bodyRows, isFinancial(headerCellsEls))
    \o RowspanIssues(bodyRows)

\* the generator's state after n calls
RECURSIVE RandomAfter(_, _)
RandomAfter(state, n) == IF n = 0 THEN state ELSE RandomAfter(NextRandom(state), n - 1)

\* the issue list analyzeTable returns when the generator starts in state
IssuesOfTable(headerCellsEls, bodyRows, g, state) ==
  LET calls == IssueCalls(headerCellsEls, bodyRows, g)
  IN [k \in 1..Len(calls) |->
        createIssue(uid(RandomAfter(state, k - 1)), calls[k].severity, calls[k].type,
                    calls[k].row, calls[k].col)]

TableFrame == UNCHANGED <<gridRows, headerRow, workerVars, protoVars, docVars>>

\* the first call of analyzeTable on the table
T_Analyze ==
  /\ gridPc = "markup"
  /\ grid' = buildGrid(headerRow, gridRows)
  /\ firstIssues' = IssuesOfTable(headerRow, gridRows, grid', rng)
  /\ rng' = RandomAfter(rng, Len(firstIssues'))
  /\ gridPc' = "analyzed"
  /\ UNCHANGED secondIssues
  /\ TableFrame

\* the second call, on the same markup and context
T_AnalyzeAgain ==
  /\ gridPc = "analyzed"
  /\ grid' = buildGrid(headerRow, gridRows)
  /\ secondIssues' = IssuesOfTable(headerRow, gridRows, grid', rng)
  /\ rng' = RandomAfter(rng, Len(secondIssues'))
  /\ gridPc' = "reanalyzed"
  /\ UNCHANGED firstIssues
  /\ TableFrame

TableNext == T_Analyze \/ T_AnalyzeAgain

\* a table has been parsed and its header row and body rows identified; the
\* generator is in some state; everything else is idle
TableInit ==
  /\ WorkerInit
  /\ queueCeiling = MaxQueueCeiling
  /\ colMaxAttempts = 0
  /\ ProtoIdle
  /\ nKeys = 0
  /\ aiConfigured = FALSE
  /\ DocIdle
  /\ headerRow \in HeaderRowEls
  /\ gridRows \in TableBodyEls
  /\ grid = NoGrid
  /\ gridPc = "markup"
  /\ firstIssues = <<>>
  /\ secondIssues = <<>>
  /\ rng \in 0..(RngPeriod - 1)

TableSpec == TableInit /\ [][TableNext]_vars

(***************************************************************************)
(* Claims about the task/batch state machine                               *)
(***************************************************************************)

\* every job of the batch is finished for good (completed, or failed at the
\* queue's ceiling) and no handler is running or pending
Settled ==
  /\ xpc = "idle"
  /\ upPc = "done" /\ ~dryRun /\ numTasks >= 1
  /\ \A t \in Existing :
       /\ jobState[t] \in {"completed", "failed"}
       /\ wpc[t] = "idle"
       /\ chk[t] \in {"none", "done"}

Succeeded == {t \in Existing : protoOk[t]}
PermanentlyFailed == {t \in Existing : ~protoOk[t]}

\* C1: in a non-dry-run batch, once every task has succeeded or has failed in
\* the protocol on every pickup and nothing is left to run, the batch is
\* COMPLETED / DONE, completedTasks is the number of succeeded tasks and
\* failedTasks the number of permanently failed tasks (stated for runs in
\* which no persistence call failed, as the final result of the run).
C1_BatchCompletes ==
  (Settled /\ dbFails = 0) =>
    /\ batchStatus = "COMPLETED" /\ batchPhase = "DONE"
    /\ getBatchProgress.completedTasks = Cardinality(Succeeded)
    /\ getBatchProgress.failedTasks = Cardinality(PermanentlyFailed)

\* C2: whenever a batch that owns tasks is COMPLETED, every task of it is in a
\* terminal status.
C2_CompletedOnlyWhenAllTerminal ==
  (batchStatus = "COMPLETED" /\ numTasks >= 1) =>
    \A t \in Existing : taskStatus[t] \in TerminalTaskStatus

\* C3: successCount + failedCount never exceeds the number of tasks, and each
\* task contributes at most once to the two counters.
C3_CountersBounded ==
  /\ successCount + failedCount <= numTasks
  /\ \A t \in Tasks : contrib[t] <= 1

AllowedTaskChange ==
  { <<"PENDING", "PROCESSING">>, <<"PROCESSING", "COMPLETED">>,
    <<"PROCESSING", "RETRY">>, <<"RETRY", "PROCESSING">>,
    <<"PROCESSING", "FAILED">> }
  \cup { <<s, "CANCELLED">> : s \in {"PENDING", "PROCESSING", "RETRY"} }

\* C4: every change of a task's status is one of the lifecycle's transitions;
\* in particular COMPLETED and FAILED are never left.
C4_TaskLifecycle ==
  [][ \A t \in Tasks :
        (taskStatus[t] # "none" /\ taskStatus'[t] # taskStatus[t])
          => <<taskStatus[t], taskStatus'[t]>> \in AllowedTaskChange ]_vars

\* the part of C4 about terminal statuses alone
C4_TerminalIsStable ==
  [][ \A t \in Tasks :
        taskStatus[t] \in {"COMPLETED", "FAILED"} => taskStatus'[t] = taskStatus[t] ]_vars

\* the processor is past its PROCESSING write for the current pickup
PastProcessingWrite(t) ==
  wpc[t] \in {"run", "okStatus", "okCount", "okLog", "fail", "failCount", "failLog"}

\* C5: for a task whose protocol run fails on every pickup, attempts equals the
\* number of pickups, RETRY is written while attempts < maxAttempts and FAILED
\* at attempts = maxAttempts, and a FAILED task has a non-empty lastError.
C5_AttemptsCountPickups ==
  \A t \in Existing :
    (~protoOk[t] /\ dbFails = 0) =>
      /\ PastProcessingWrite(t) => taskAttempts[t] = pickups[t]
      /\ taskStatus[t] = "RETRY" => taskAttempts[t] < EffectiveMaxAttempts
      /\ taskStatus[t] = "FAILED" =>
           /\ taskAttempts[t] = EffectiveMaxAttempts
           /\ pickups[t] = EffectiveMaxAttempts
           /\ taskLastError[t] # ""

\* C6: a task is picked up at most maxAttempts times, whatever the queue's own
\* attempts ceiling is (stated for runs in which no persistence call failed).
C6_PickupsBoundedByMaxAttempts ==
  dbFails = 0 => \A t \in Existing : pickups[t] <= EffectiveMaxAttempts

\* C7: when the retry branch writes RETRY after the k-th failed attempt, the
\* nextRetryAt it stores is now + 5000 * 2^k (k = number of pickups so far;
\* stated for runs in which no persistence call failed).
C7_BackoffArithmetic ==
  [][ \A t \in Tasks :
        (dbFails = 0 /\ wpc[t] = "fail" /\ taskStatus'[t] = "RETRY")
          => taskNextRetryAt'[t] = now + BackoffBaseMs * Pow2(pickups[t]) ]_vars


(***************************************************************************)
(* Claims about the repair protocol                                        *)
(***************************************************************************)

\* C8: a run makes at most 3 attempts, stops at the first attempt that passes
\* validation, makes exactly 3 attempts when validation keeps failing, and
\* every result, also a failure, carries an attempt log with one entry per
\* attempt made (stated for processes with at least one key configured).
C8_AttemptLogCoversEveryTry ==
  \A r \in Runs :
    /\ tries[r] <= 3
    /\ \A i \in 1..Len(attemptLogs[r]) : ~attemptLogs[r][i].valid
    /\ (nKeys > 0 /\ pResult[r].done) =>
         /\ pResult[r].error = ErrValidation => tries[r] = 3
         /\ pResult[r].hasLog
         /\ pResult[r].logLen = tries[r]

\* C9: the primary provider is called at most once in a run, only under the
\* hybrid strategy, only in the first round and before any pool call; under
\* the pool-only strategy it is never called.
C9_PrimaryOnlyFirst ==
  \A r \in Runs :
    /\ primaryCalls[r] <= 1
    /\ pStrategy[r] = "openrouter" => primaryCalls[r] = 0
    /\ ppc[r] = "primary" =>
         /\ pStrategy[r] = "hybrid"
         /\ tries[r] = 1
         /\ ~poolCalled[r]

\* the primary call failed and the pool is called within the same round
C9_Witness ==
  \E r \in Runs :
    /\ primaryCalls[r] = 1 /\ tries[r] = 1
    /\ ppc[r] = "poolcall" /\ providerUsed[r] = "openrouter"

C10_Inv ==
  \A r \in Runs :
    /\ keyFails[r] <= 3
    /\ ppc[r] = "poolcall" => keyFails[r] < 3
    /\ (pResult[r].done /\ pResult[r].error = ErrAllKeys) => keyFails[r] = 3

C10_Step ==
  \A r \in Runs :
    (ppc[r] = "delay" /\ lastKeyOut[r] = "KEY_EXHAUSTED" /\ keyFails[r] < 3
       /\ ppc'[r] # "delay")
      => /\ ppc'[r] = "poolcall"
         /\ curKey'[r] = keyPointer
         /\ keyPointer' = (keyPointer + 1) % nKeys

\* C10: after a key answers with exhaustion the pool call goes on with the
\* next key of the round-robin; at most 3 keys are tried per pool call, and
\* "All OpenRouter keys failed." is returned only after 3 failed keys in a row.
C10_KeyRotation == []C10_Inv /\ [][C10_Step]_vars

\* three keys in a row answered with errors, the last with exhaustion, and the
\* run has returned the total provider failure
C10_Witness ==
  \E r \in Runs :
    /\ pResult[r].done /\ pResult[r].error = ErrAllKeys
    /\ keyFails[r] = 3 /\ lastKeyOut[r] = "KEY_EXHAUSTED"

\* C11: with n >= 1 keys the pointer stays in 0..n-1, every n consecutive
\* selections of getNextKey return every key index exactly once, and with
\* n >= 2 no two consecutive selections return the same index.
C11_RoundRobin ==
  nKeys >= 1 =>
    /\ keyPointer \in 0..(nKeys - 1)
    /\ \A i \in 1..Len(selHist) : selHist[i] \in 0..(nKeys - 1)
    /\ Len(selHist) = nKeys =>
         \A k \in 0..(nKeys - 1) :
           Cardinality({i \in 1..nKeys : selHist[i] = k}) = 1
    /\ nKeys >= 2 =>
         \A i \in 1..(Len(selHist) - 1) : selHist[i] # selHist[i + 1]

\* two keys, and the selections have wrapped around: the window of the last
\* two selections starts at the second key
C11_Witness ==
  /\ nKeys >= 2
  /\ Len(selHist) = nKeys
  /\ selHist[1] = nKeys - 1
  /\ selHist[nKeys] = nKeys - 2

\* C12: a pool call that fails with an error other than key exhaustion ends
\* the run at once: the result is the failure with that error, and no further
\* key is tried and no further attempt is made.
C12_OtherErrorAborts ==
  \A r \in Runs :
    lastKeyOut[r] = "OpenRouter API Error" =>
      \/ ppc[r] = "delay"
      \/ /\ ppc[r] = "done"
         /\ pResult[r].done /\ ~pResult[r].success
         /\ pResult[r].error = "OpenRouter API Error"

\* a <tr element inside a <table element
HasTableWithRow(html) ==
  \E i, j, k, l \in 1..Len(html) :
    /\ i < j /\ j < k /\ k < l
    /\ html[i] = "<table" /\ html[j] = "<tr"
    /\ html[k] = "</tr>" /\ html[l] = "</table>"

\* C13: a result with success = true carries markup with a table element that
\* has at least one row; a result with success = false carries empty markup.
C13_ValidationGate ==
  \A r \in Runs :
    pResult[r].done =>
      IF pResult[r].success
        THEN HasTableWithRow(pResult[r].repairedHtml)
        ELSE pResult[r].repairedHtml = <<>>

\* a run that succeeded on a later attempt, after an output was rejected
C13_Witness ==
  \E r \in Runs :
    /\ pResult[r].done /\ pResult[r].success
    /\ pResult[r].logLen >= 2

\* C14: the cost of a successful run is computed from the tokens the pool
\* provider used only; tokens of the primary provider cost nothing.
C14_CostCoversPoolTokensOnly ==
  \A r \in Runs :
    (pResult[r].done /\ pResult[r].success) =>
      pResult[r].costBRL = calculateCost(poolUsed[r])

\* C36: with at least two keys and several runs of the protocol at once, a
\* selection hands out the key under the pointer and advances the pointer in
\* the same step, and the key a run tries after a key answered with exhaustion
\* differs from the exhausted key, whatever the other runs did in between.
C36_RotationUnderConcurrency ==
  [][ \A r \in Runs :
        (nKeys >= 2 /\ ppc'[r] = "poolcall" /\ ppc[r] # "poolcall") =>
          /\ curKey'[r] = keyPointer
          /\ keyPointer' = (keyPointer + 1) % nKeys
          /\ (ppc[r] = "delay" /\ lastKeyOut[r] = "KEY_EXHAUSTED")
               => curKey'[r] # curKey[r] ]_vars

(***************************************************************************)
(* Claims about cancellation and intake                                    *)
(***************************************************************************)

C15_Step ==
  /\ (xpc = "idle" /\ xpc' = "removing") =>
        xJobs' = {t \in Tasks : jobState[t] \in {"waiting", "delayed"}}
  /\ xpc = "removing" =>
        /\ xpc' # "error"
        /\ \A t \in Tasks : jobState[t] = "active" => jobState'[t] # "removed"
  /\ (xpc = "removing" /\ xpc' = "done") => batchStatus' = "CANCELLED"

\* C15: a cancel request takes exactly the waiting and delayed jobs of the
\* batch for removal, leaves the active jobs alone, and ends by writing
\* CANCELLED whether or not jobs are active.
C15_CancelRemovesQueuedOnly == [][C15_Step]_vars

\* C16: once the batch is CANCELLED its status never changes again, whatever
\* the completion handlers of finishing tasks do.
C16_CancelledIsStable ==
  [][batchStatus = "CANCELLED" => batchStatus' = "CANCELLED"]_vars

\* C17: when a cancel request has succeeded, no task of the batch is left in
\* PENDING, PROCESSING or RETRY (stated for runs without persistence errors).
C17_CancelMarksTasks ==
  (xpc = "done" /\ dbFails = 0) =>
    \A t \in Existing : taskStatus[t] \notin {"PENDING", "PROCESSING", "RETRY"}

NoJobs == \A t \in Tasks : jobState[t] = "none"

\* a step of the upload route
IntakeStep == upPc' # upPc

C19_Step ==
  /\ (batchStatus = "none" /\ batchStatus' # "none") =>
        batchStatus' = "PENDING" /\ batchPhase' = "UPLOAD"
  /\ (batchStatus = "PENDING" /\ batchStatus' # "PENDING") =>
        batchStatus' = "PROCESSING" /\ batchPhase' = "AUDIT"
  /\ (IntakeStep /\ batchStatus \notin {"none", "PENDING"}
        /\ <<batchStatus', batchPhase'>> # <<batchStatus, batchPhase>>) =>
        IF dryRun
          THEN /\ batchPhase = "AUDIT"
               /\ batchStatus' = "COMPLETED" /\ batchPhase' = "DONE"
               /\ numTasks' = 0 /\ NoJobs'
          ELSE /\ batchStatus' = "PROCESSING" /\ batchPhase' = "REPAIR"
               /\ numTasks' = numTasks
               /\ \A t \in Existing : jobState[t] # "none"
  /\ (NoJobs /\ ~NoJobs') =>
        /\ batchPhase = "AUDIT" /\ ~dryRun
        /\ numTasks' = numTasks /\ taskStatus' = taskStatus
        /\ \A t \in Tasks : (jobState'[t] # "none") = (taskStatus[t] = "PENDING")
  /\ numTasks' # numTasks => (batchPhase = "AUDIT" /\ ~dryRun /\ NoJobs /\ NoJobs')

\* C19: a new batch goes PENDING(UPLOAD) -> PROCESSING(AUDIT); a dry run then
\* goes to COMPLETED(DONE) with no task and no job; otherwise the tasks are
\* created, then the jobs are enqueued, then the phase becomes REPAIR.
C19_IntakeTransitions ==
  /\ [][C19_Step]_vars
  /\ [](dryRun => (numTasks = 0 /\ NoJobs))

\* a batch in phase REPAIR whose tasks all have their job
C19_Witness ==
  /\ batchPhase = "REPAIR" /\ ~dryRun /\ numTasks = MaxTasks
  /\ \A t \in Existing : jobState[t] # "none"

\* C20: a batch whose audit produced no task ends COMPLETED(DONE).  Stated for
\* the state after the upload has returned and before any cancel request: with
\* no task there is no job, so no worker event and no completion check can
\* follow, and this state is the batch's last one.
C20_EmptyBatchCompletes ==
  (upPc = "done" /\ ~dryRun /\ numTasks = 0 /\ xpc = "idle") =>
    batchStatus = "COMPLETED" /\ batchPhase = "DONE"

(***************************************************************************)
(* Claims about redelivery, completion and reconstruction                  *)
(***************************************************************************)

\* C35: a job whose task is in RETRY is picked up only when the clock has
\* reached the nextRetryAt the worker stored for the task.
C35_NoPickupBeforeNextRetryAt ==
  [][ \A t \in Tasks :
        (jobState[t] = "waiting" /\ jobState'[t] = "active" /\ taskStatus[t] = "RETRY")
          => now >= taskNextRetryAt[t] ]_vars

\* C39: once the batch is COMPLETED / DONE, no step changes its status or its
\* phase.
C39_CompletedIsStable ==
  [][ (batchStatus = "COMPLETED" /\ batchPhase = "DONE")
        => (batchStatus' = "COMPLETED" /\ batchPhase' = "DONE") ]_vars

\* C40: generateOutputFile runs at most once for the batch.
C40_OutputGeneratedOnce == genCount <= 1

(***************************************************************************)
(* Claims about the audit-to-output pipeline                               *)
(***************************************************************************)

\* the top-level tables of a field of the upload and of the output file
UploadedTop(qi, f) == TopLevelTables(upload.questoes[qi + 1][f])
OutputTop(qi, f) == TopLevelTables(outputData.questoes[qi + 1][f])

QuestionIndexes == 0..(Len(upload.questoes) - 1)

RowIds == 1..Len(taskRows)

Repaired(row) == row.status = "COMPLETED" /\ row.repairedHtml # <<>>

InRange(row) == row.tableIndex < Len(UploadedTop(row.questionIndex, row.field))

StandsAtItsPosition(row) ==
  LET top == OutputTop(row.questionIndex, row.field) IN
  /\ row.tableIndex < Len(top)
  /\ top[row.tableIndex + 1] = Head(row.repairedHtml)

\* C21: in the output file the repaired table of every COMPLETED task is the
\* N-th top-level table of the task's field of the task's question, N being
\* the table index the audit recorded.
C21_PositionalReinjection ==
  outputData # NoOutput =>
    \A i \in RowIds : Repaired(taskRows[i]) => StandsAtItsPosition(taskRows[i])

\* C22: in the output file a field is the uploaded string itself when all its
\* COMPLETED tasks have an index out of range, and so are all fields of a
\* question without COMPLETED task; the tasks in range are applied all the same.
C22_ReconstructionFrame ==
  outputData # NoOutput =>
    /\ Len(outputData.questoes) = Len(upload.questoes)
    /\ \A qi \in QuestionIndexes : \A f \in Fields :
         (\A i \in RowIds :
            (taskRows[i].questionIndex = qi /\ taskRows[i].field = f
               /\ taskRows[i].status = "COMPLETED") => ~InRange(taskRows[i]))
           => outputData.questoes[qi + 1][f] = upload.questoes[qi + 1][f]
    /\ \A qi \in QuestionIndexes :
         (\A i \in RowIds : taskRows[i].questionIndex = qi => taskRows[i].status # "COMPLETED")
           => outputData.questoes[qi + 1] = upload.questoes[qi + 1]
    /\ \A i \in RowIds :
         (Repaired(taskRows[i]) /\ InRange(taskRows[i])) => StandsAtItsPosition(taskRows[i])

\* an output file for a batch with a COMPLETED task whose index is out of
\* range, a task applied in a later question, and a question whose only
\* task FAILED
C22_Witness ==
  /\ outputData # NoOutput
  /\ \E i, j, k \in RowIds :
       /\ Repaired(taskRows[i]) /\ ~InRange(taskRows[i])
       /\ Repaired(taskRows[j]) /\ InRange(taskRows[j])
       /\ taskRows[j].questionIndex >= taskRows[i].questionIndex /\ j > i
       /\ taskRows[k].status = "FAILED"
       /\ \A n \in RowIds :
            taskRows[n].questionIndex = taskRows[k].questionIndex
              => taskRows[n].status = "FAILED"

SameTableOrItsRepair(qi, f, n) ==
  \/ OutputTop(qi, f)[n] = UploadedTop(qi, f)[n]
  \/ \E i \in RowIds :
       /\ taskRows[i].questionIndex = qi /\ taskRows[i].field = f
       /\ taskRows[i].tableIndex = n - 1
       /\ OutputTop(qi, f)[n] = RepairedTable(i)

\* C24: the output file is a bare array when the upload was one, and an
\* object with the upload's other members when the upload was an object; its
\* questions are the upload's questions, as many and in the same order.
C24_ShapePreserved ==
  outputData # NoOutput =>
    /\ outputData.isArray = upload.isArray
    /\ outputData.others = upload.others
    /\ Len(outputData.questoes) = Len(upload.questoes)
    /\ \A qi \in QuestionIndexes : \A f \in Fields :
         /\ outputData.questoes[qi + 1][f].md = upload.questoes[qi + 1][f].md
         /\ Len(OutputTop(qi, f)) = Len(UploadedTop(qi, f))
         /\ \A n \in 1..Len(OutputTop(qi, f)) : SameTableOrItsRepair(qi, f, n)

\* an output file for an upload that was an object with two questions, with
\* a repaired table in its second question
C24_Witness ==
  /\ outputData # NoOutput /\ ~upload.isArray
  /\ Len(upload.questoes) = MaxQuestions
  /\ \E i \in RowIds :
       /\ Repaired(taskRows[i]) /\ taskRows[i].questionIndex = MaxQuestions - 1
       /\ StandsAtItsPosition(taskRows[i])

C25_Inv ==
  /\ genFailed => (docBatch.outputFilePath = NoPath /\ dpc \in {"status", "done"})
  /\ dpc = "done" => (docBatch.status = "COMPLETED" /\ docBatch.phase = "DONE")

C25_Step ==
  (genFailed /\ dpc = "status") =>
    (docBatch'.status = "COMPLETED" /\ docBatch'.phase = "DONE"
       /\ docBatch'.outputFilePath = NoPath)

\* C25: when generateOutputFile fails, the error stays inside it, the batch
\* row gets no output file path, and the completion check goes on to write
\* COMPLETED / DONE.
C25_GenerationFailureIsContained == []C25_Inv /\ [][C25_Step]_vars

\* the batch is COMPLETED / DONE without output file path after a failed
\* generation
C25_Witness ==
  /\ genFailed /\ dpc = "done"
  /\ docBatch.status = "COMPLETED" /\ docBatch.outputFilePath = NoPath

AuditIssues == auditData(upload)

HasTask(key) == \E i \in RowIds : IssueKey(taskRows[i]) = key

TasksCreated == dpc \notin {"idle", "audit", "tasks"}

\* C26: once the tasks are created, the table of every BAD issue has a task,
\* whatever the severity filter, and a table with WARN issues only has a task
\* only when the filter is ALL.
C26_SeverityPolicy ==
  TasksCreated =>
    \A n \in 1..Len(AuditIssues) :
      LET issue == AuditIssues[n] IN
      /\ issue.severity = "BAD" => HasTask(IssueKey(issue))
      /\ (/\ HasTask(IssueKey(issue))
          /\ \A m \in 1..Len(AuditIssues) :
               IssueKey(AuditIssues[m]) = IssueKey(issue) => AuditIssues[m].severity = "WARN")
           => severityFilter = "ALL"

\* C27: no two task rows of the batch have the same (questionIndex, field,
\* tableIndex), and once the jobs are enqueued every task has exactly one job,
\* whose jobId is the task id, and every job belongs to a task.
C27_OneTaskPerTable ==
  /\ \A i, j \in RowIds : i # j => IssueKey(taskRows[i]) # IssueKey(taskRows[j])
  /\ TasksCreated =>
       /\ \A i \in RowIds : Cardinality({n \in 1..Len(jobs) : jobs[n].jobId = i}) = 1
       /\ \A n \in 1..Len(jobs) : jobs[n].jobId \in RowIds

\* the jobs are enqueued for a batch in which several issues were reported
\* for one table
C27_Witness ==
  /\ TasksCreated /\ Len(jobs) >= 2
  /\ \E m, n \in 1..Len(filteredIssues) :
       m # n /\ IssueKey(filteredIssues[m]) = IssueKey(filteredIssues[n])

\* C28: the jobs are handed to the queue in ascending order of question
\* index, and a job of a later question never has a smaller priority value
\* than a job of an earlier question.
C28_EnqueueOrder ==
  \A m, n \in 1..Len(jobs) :
    /\ m < n => jobs[m].questionIndex <= jobs[n].questionIndex
    /\ jobs[m].questionIndex < jobs[n].questionIndex => jobs[m].priority <= jobs[n].priority

\* jobs of two questions are enqueued, several of them for the first question
C28_Witness ==
  /\ Len(jobs) >= 3
  /\ jobs[1].questionIndex = jobs[2].questionIndex
  /\ jobs[Len(jobs)].questionIndex > jobs[1].questionIndex

(***************************************************************************)
(* Claims about the grid builder                                           *)
(***************************************************************************)

NoSpanAttribute(cell) == cell.colspan \in {"none", "1"} /\ cell.rowspan \in {"none", "1"}

NoSpans(rows) ==
  \A i \in 1..Len(rows) : \A k \in 1..Len(rows[i]) :
    /\ NoSpanAttribute(rows[i][k])
    /\ \A n \in 1..Len(rows[i][k].nested) : NoSpanAttribute(rows[i][k].nested[n])

\* C30: for a table whose cells all have colspan 1 and rowspan 1, rowWidths
\* has one entry per body row, the number of cells of that row.
C30_RowWidthsWithoutSpans ==
  (gridPc = "built" /\ NoSpans(gridRows)) =>
    /\ Len(grid.rowWidths) = Len(gridRows)
    /\ \A i \in 1..Len(gridRows) : grid.rowWidths[i] = Len(gridRows[i])

\* C31: a cell with rowspan r placed at column c keeps column c occupied in
\* each of the next r-1 body rows: no cell of those rows is placed over
\* column c, and the width of those rows counts column c.
C31_RowspanReservation ==
  gridPc = "built" =>
    \A i \in 1..Len(grid.bodyCells) :
      LET g == grid.bodyCells[i]
      IN \A k \in 1..(g.rowspan - 1) :
           g.row + k < Len(gridRows) =>
             /\ \A j \in 1..Len(grid.bodyCells) :
                  LET h == grid.bodyCells[j]
                  IN h.row = g.row + k => ~(h.col <= g.col /\ g.col < h.col + h.colspan)
             /\ grid.rowWidths[g.row + k + 1] >= g.col + 1

(***************************************************************************)
(* Claims about the issue detector                                         *)
(***************************************************************************)

\* analyzeTable has returned at least once
Analyzed == gridPc \in {"analyzed", "reanalyzed"}

EmptyCell == [colspan |-> "none", rowspan |-> "none", nested |-> <<>>, content |-> FALSE]

\* the ghost issues of the first call, aggregate or per column
GhostIssuesFound ==
  SelectSeq(firstIssues, LAMBDA i : i.type \in {"GHOST_COLUMN", "GHOST_COLUMNS"})

\* the header is (Coluna 1, Valor) and the only body row has an empty first
\* cell and a second cell with content
GhostScenario ==
  /\ headerRow = <<[colspan |-> "none", keyword |-> FALSE],
                   [colspan |-> "none", keyword |-> TRUE]>>
  /\ gridRows = <<<<EmptyCell, PlainCell>>>>

\* C32: in the scenario above the detector reports exactly one ghost issue: a
\* GHOST_COLUMN of severity BAD for column 0.
C32_GhostColumnScenario ==
  (Analyzed /\ GhostScenario) =>
    /\ Len(GhostIssuesFound) = 1
    /\ GhostIssuesFound[1].type = "GHOST_COLUMN"
    /\ GhostIssuesFound[1].severity = "BAD"
    /\ GhostIssuesFound[1].col = 0

\* the COL_MISMATCH issues of the first call that name row r
MismatchesOfRow(r) ==
  {k \in 1..Len(firstIssues) :
     firstIssues[k].type = "COL_MISMATCH" /\ firstIssues[k].row = r}

\* a header of 3 cells without colspan and one body row 2 columns wide
MismatchScenario ==
  /\ Len(headerRow) = 3
  /\ \A i \in 1..3 : headerRow[i].colspan = "none"
  /\ Len(gridRows) = 1
  /\ grid.rowWidths = <<2>>

\* C33: the detector reports exactly one COL_MISMATCH issue, of severity BAD,
\* for each body row whose width in the grid differs from expectedCols and
\* none for the other rows; a 3-cell header with one body row of 2 columns
\* gives exactly one COL_MISMATCH issue, for that row.
C33_ColMismatch ==
  Analyzed =>
    /\ \A r \in 0..(Len(gridRows) - 1) :
         Cardinality(MismatchesOfRow(r)) =
           IF grid.rowWidths[r + 1] # grid.expectedCols THEN 1 ELSE 0
    /\ \A k \in 1..Len(firstIssues) :
         firstIssues[k].type = "COL_MISMATCH" =>
           /\ firstIssues[k].severity = "BAD"
           /\ firstIssues[k].row \in 0..(Len(gridRows) - 1)
    /\ MismatchScenario => Cardinality(MismatchesOfRow(0)) = 1

\* the scenario has been analysed and the issue for its row is in the list
C33_Witness ==
  /\ Analyzed
  /\ MismatchScenario
  /\ Cardinality(MismatchesOfRow(0)) = 1

\* C34: two calls of analyzeTable on the same markup and context return the
\* same issue list, in order and in the content of every issue.
C34_Deterministic ==
  gridPc = "reanalyzed" => secondIssues = firstIssues

\* no body cell with content lies over column c
LacksContent(c) ==
  ~\E i \in 1..Len(grid.bodyCells) :
     /\ grid.bodyCells[i].content
     /\ grid.bodyCells[i].col <= c
     /\ c < grid.bodyCells[i].col + grid.bodyCells[i].colspan

\* the number of columns at the end of the expected columns that lack content
TrailingLacking ==
  Cardinality({c \in 0..(grid.expectedCols - 1) :
                 \A d \in c..(grid.expectedCols - 1) : LacksContent(d)})

\* C37: with more than one expected column and at least one body row, at
\* least 3 trailing columns without content give exactly one aggregate BAD
\* GHOST_COLUMNS issue and no per-column issue; otherwise there is exactly one
\* GHOST_COLUMN issue per column without content, BAD for the last column and
\* WARN for the others.
C37_GhostColumnRule ==
  (Analyzed /\ grid.expectedCols > 1 /\ Len(gridRows) >= 1) =>
    IF TrailingLacking >= 3
      THEN /\ Len(GhostIssuesFound) = 1
           /\ GhostIssuesFound[1].type = "GHOST_COLUMNS"
           /\ GhostIssuesFound[1].severity = "BAD"
      ELSE /\ \A c \in 0..(grid.expectedCols - 1) :
                Cardinality({k \in 1..Len(GhostIssuesFound) : GhostIssuesFound[k].col = c})
                  = IF LacksContent(c) THEN 1 ELSE 0
           /\ \A k \in 1..Len(GhostIssuesFound) :
                /\ GhostIssuesFound[k].type = "GHOST_COLUMN"
                /\ GhostIssuesFound[k].col \in 0..(grid.expectedCols - 1)
                /\ GhostIssuesFound[k].severity =
                     IF GhostIssuesFound[k].col = grid.expectedCols - 1 THEN "BAD" ELSE "WARN"

\* the last column and an earlier column lack content: one BAD and one WARN
C37_Witness ==
  /\ Analyzed
  /\ TrailingLacking < 3
  /\ \E k, l \in 1..Len(GhostIssuesFound) :
       /\ GhostIssuesFound[k].severity = "WARN"
       /\ GhostIssuesFound[l].severity = "BAD"
       /\ GhostIssuesFound[l].col = grid.expectedCols - 1

\* a cell placed in row r, or a cell of an earlier row whose rowspan reaches
\* row r, lies over column c
CoveredInRow(r, c) ==
  \E i \in 1..Len(grid.bodyCells) :
    LET g == grid.bodyCells[i]
    IN /\ g.col <= c /\ c < g.col + g.colspan
       /\ \/ g.row = r
          \/ g.row < r /\ r <= g.row + g.rowspan - 1

\* C38: for a table that is not financial, a CELL_HOLE issue names row r and
\* column c exactly when row r has at least 2 placed cells, column c is not
\* covered in row r, and columns c-1 and c+1 are covered.
C38_CellHoleRule ==
  (Analyzed /\ ~isFinancial(headerRow)) =>
    \A r \in 0..(Len(gridRows) - 1), c \in GridCols :
      (\E k \in 1..Len(firstIssues) :
         /\ firstIssues[k].type = "CELL_HOLE"
         /\ firstIssues[k].row = r
         /\ firstIssues[k].col = c)
      <=> /\ Cardinality(CellsByRow(grid, r)) >= 2
          /\ ~CoveredInRow(r, c)
          /\ CoveredInRow(r, c - 1)
          /\ CoveredInRow(r, c + 1)

(***************************************************************************)
(* Claims about the batch counters                                         *)
(***************************************************************************)

RECURSIVE SumContrib(_)
SumContrib(n) == IF n = 0 THEN 0 ELSE contrib[n] + SumContrib(n - 1)

\* C29: whatever the interleaving of the workers, the batch counters hold the
\* sum of the increments applied so far: successCount + failedCount is the
\* number of increment calls that went through, and totalTokensUsed and
\* totalCostBRL are the tokens and the cost of the successful ones.
C29_NoLostUpdates ==
  /\ successCount + failedCount = SumContrib(MaxTasks)
  /\ totalTokensUsed = successCount * ResultUsage.totalTokens
  /\ totalCostBRL = successCount * ResultUsage.costBRL

\* one worker has just incremented the counters while another one, having
\* written its task's status, is about to increment them
C29_Witness ==
  \E t, u \in Existing :
    /\ t # u
    /\ wpc[t] = "okLog" /\ contrib[t] = 1
    /\ wpc[u] \in {"okCount", "failCount"}
    /\ successCount >= 1

Init == WorkerInit /\ ProtoIdle /\ nKeys = 0 /\ aiConfigured = FALSE /\ DocIdle /\ GridIdle

Next == WorkerNext

Spec == Init /\ [][Next]_vars
====
